---- MODULE Spec2Model ----
(***************************************************************************)
(* Causal-estimation and robustness core of research_assistant_ai:         *)
(* synthetic_control (models/causal_plus.py), donor_pool_search            *)
(* (models/synth_opt.py), the three robustness sweeps                      *)
(* (assistant/robustness.py) and compare_did_models                        *)
(* (models/model_comparison.py).                                           *)
(* Further parts: direct calls of bic_weights, regression_discontinuity,   *)
(* event_study, difference_in_differences, covariate_set_sensitivity       *)
(* (models/sensitivity.py) and event_study_preperiod_joint_test            *)
(* (models/did_diagnostics.py), and the effects of every function on the   *)
(* caller's frame and lists.                                               *)
(*                                                                         *)
(* Each function call is a small state machine held in one record          *)
(* variable: sc (a synthetic_control call), sw (a sweep), ds (a donor      *)
(* search), cmp (a model comparison), call (a direct call of one of the    *)
(* other estimators and diagnostics), agent (a ResearchAgent with its      *)
(* files: agent/research_agent.py, registry/research_memory.py,            *)
(* registry/experiment_registry.py).  Every part has its own               *)
(* specification; the variables of the other parts stay idle.              *)
(*                                                                         *)
(* Period labels are strings with a total order in the code; the model     *)
(* uses their ranks (integers).  Floats are exact rationals or integers    *)
(* in a fixed unit.                                                        *)
(***************************************************************************)
EXTENDS Integers, Sequences, FiniteSets, TLC

VARIABLES sc, sw, ds, cmp, call, agent

vars == <<sc, sw, ds, cmp, call, agent>>

Idle == [pc |-> "idle"]

\* Python's None, and an optional value that is present
None == {}

Some(x) == {x}

The(opt) == CHOOSE x \in opt : TRUE

\* float("nan") of a rational <<numerator, denominator>>: 0 / 0
NaN == <<0, 0>>

\* `x or default` for an optional list: None and the empty list are falsy
Falsy(opt) == opt = None \/ opt = Some(<<>>)

\* a missing (unit, period) row of the panel: NaN after reindex
NA == -9999

(***************************************************************************)
(* Generic helpers                                                         *)
(***************************************************************************)

Abs(x) == IF x < 0 THEN -x ELSE x

Max(a, b) == IF a >= b THEN a ELSE b

Min(a, b) == IF a <= b THEN a ELSE b

RECURSIVE GCD(_, _)
GCD(a, b) == IF b = 0 THEN Abs(a) ELSE GCD(b, a % b)

Range(s) == {s[i] : i \in DOMAIN s}

RECURSIVE SumSeq(_)
SumSeq(s) == IF s = <<>> THEN 0 ELSE Head(s) + SumSeq(Tail(s))

RECURSIVE GCDSeq(_)
GCDSeq(s) == IF s = <<>> THEN 0 ELSE GCD(Head(s), GCDSeq(Tail(s)))

\* sorted(S) for a set of integers (period ranks)
RECURSIVE SortedInts(_)
SortedInts(S) ==
    IF S = {} THEN <<>>
    ELSE LET m == CHOOSE x \in S : \A y \in S : x <= y
         IN <<m>> \o SortedInts(S \ {m})

\* Unit identifiers in their sorted (alphabetical) order.
UnitOrder == <<"A", "B", "C", "D", "E">>

UnitRank(u) == CHOOSE i \in DOMAIN UnitOrder : UnitOrder[i] = u

\* sorted(S) for a set of unit identifiers
SortedUnits(S) == SelectSeq(UnitOrder, LAMBDA u : u \in S)

\* sorted(l, key=..., reverse=True) with keys[i] the key of l[i]: a stable
\* sort, so equal keys keep their order
RECURSIVE OrderDesc(_, _)
OrderDesc(keys, left) ==
    IF left = {} THEN <<>>
    ELSE LET i == CHOOSE j \in left :
                     \A k \in left : keys[k] < keys[j] \/ (keys[k] = keys[j] /\ j <= k)
         IN <<i>> \o OrderDesc(keys, left \ {i})

SortDescBy(l, keys) ==
    LET o == OrderDesc(keys, DOMAIN l)
    IN [n \in DOMAIN l |-> l[o[n]]]

\* l[:n], n >= 0
Take(l, n) == SubSeq(l, 1, Min(n, Len(l)))

\* all sequences over S of length 0..n
SeqsUpTo(S, n) == UNION {[1..k -> S] : k \in 0..n}

(***************************************************************************)
(* synthetic_control  (models/causal_plus.py:123-183)                      *)
(***************************************************************************)

\* bounds of the panels given to synthetic_control
SCMaxPeriod == 2

SCMaxIter == 3

SCUnits == {"A", "B", "C"}

SCPeriods == 1..SCMaxPeriod

SCVals == {0, 4}

\* the fixed iteration budget, `for _ in range(4000)`
NIter == 4000

\* lr = 0.05 = 1 / LrInv
LrInv == 20

\* d[unit_col].unique(): the units with at least one row
PanelUnits(df) == {u \in DOMAIN df : \E t \in DOMAIN df[u] : df[u][t] # NA}

\* sorted(d[time_col].unique())
AllTimes(df) ==
    SortedInts({t \in UNION {DOMAIN df[u] : u \in DOMAIN df} :
                   \E u \in DOMAIN df : df[u][t] # NA})

PreTimes(df, intervention_time) ==
    SelectSeq(AllTimes(df), LAMBDA t : t < intervention_time)

PostTimes(df, intervention_time) ==
    SelectSeq(AllTimes(df), LAMBDA t : t >= intervention_time)

\* donors = donor_units or sorted([u for u in units if u != treated_unit]):
\* an explicit non-empty list is taken as it is.
\* units: d[unit_col].unique()
SCDonors(units, treated_unit, donor_units) ==
    IF Falsy(donor_units)
    THEN SortedUnits(units \ {treated_unit})
    ELSE The(donor_units)

\* _series(u, times): s.reindex(times).ffill().fillna(0.0)
RECURSIVE FFill(_, _, _)
FFill(row, times, last) ==
    IF times = <<>> THEN <<>>
    ELSE LET t == Head(times)
             v == IF t \in DOMAIN row /\ row[t] # NA THEN row[t] ELSE last
         IN <<v>> \o FFill(row, Tail(times), v)

Series(df, u, times) ==
    LET row == IF u \in DOMAIN df THEN df[u] ELSE [t \in {} |-> NA]
        filled == FFill(row, times, NA)
    IN [i \in DOMAIN filled |-> IF filled[i] = NA THEN 0 ELSE filled[i]]

(***************************************************************************)
(* The weights are the rational vector v[j] / den.  One iteration of       *)
(*     grad = -2 X'(Y - Xw) / max(1, T);  w = w - lr grad;                 *)
(*     w = clip(w, 0);  s = sum(w);  if s > 0: w = w / s                   *)
(* on w = v/den gives, with c = LrInv/2 * max(1,T),                        *)
(*     u[j] = c v[j] + sum_t X[t][j] (den Y[t] - sum_k X[t][k] v[k])       *)
(* over the denominator c den; clipping and the division by the sum act    *)
(* on the numerators.                                                      *)
(***************************************************************************)

Dot(a, b) == SumSeq([i \in DOMAIN a |-> a[i] * b[i]])

\* lowest terms, so that equal weight vectors are equal states
Reduce(v, den) ==
    LET g == GCD(GCDSeq(v), den)
    IN IF g = 0 THEN [v |-> v, den |-> 1]
       ELSE [v |-> [j \in DOMAIN v |-> v[j] \div g], den |-> den \div g]

\* the update before the clip: numerators over c * den
GradStep(X, Y, v, den) ==
    LET T == Len(Y)
        c == (LrInv \div 2) * Max(1, T)
        resid == [t \in 1..T |-> den * Y[t] - Dot([j \in DOMAIN v |-> X[j][t]], v)]
    IN [j \in DOMAIN v |-> c * v[j] + Dot(X[j], resid)]

Clip(u) == [j \in DOMAIN u |-> Max(0, u[j])]

\* if s > 0: w = w / s   (otherwise w is left as it is: all zeros)
Renorm(u, cden) ==
    IF SumSeq(u) > 0 THEN Reduce(u, SumSeq(u)) ELSE Reduce(u, cden)

PgdStep(X, Y, v, den) ==
    LET T == Len(Y)
        c == (LrInv \div 2) * Max(1, T)
    IN Renorm(Clip(GradStep(X, Y, v, den)), c * den)

\* w = np.ones(n) / n
InitWeights(n) == Reduce([j \in 1..n |-> 1], n)

SCInputs ==
    [df : [SCUnits -> [SCPeriods -> SCVals \cup {NA}]],
     treated_unit : {"A"},
     intervention_time : 1..(SCMaxPeriod + 1),
     donor_units : {None, Some(<<>>), Some(<<"B">>), Some(<<"B", "C">>),
                    Some(<<"A", "B">>)}]

SCStart(in) ==
    [pc |-> "called", df |-> in.df, treated_unit |-> in.treated_unit,
     intervention_time |-> in.intervention_time, donor_units |-> in.donor_units,
     donors |-> <<>>, v |-> <<>>, den |-> 1, it |-> 0, result |-> None]

\* lines 137-154: donors, the period axis, the aligned series, the first w.
\* np.vstack of an empty list raises ValueError.
SCSetup ==
    /\ sc.pc = "called"
    /\ LET donors == SCDonors(PanelUnits(sc.df), sc.treated_unit, sc.donor_units)
       IN IF donors = <<>>
          THEN sc' = [sc EXCEPT !.pc = "raised"]
          ELSE LET w0 == InitWeights(Len(donors))
               IN sc' = [sc EXCEPT !.pc = "loop", !.donors = donors,
                                   !.v = w0.v, !.den = w0.den]
    /\ UNCHANGED <<sw, ds, cmp, call, agent>>

Xpre(s) == [j \in DOMAIN s.donors |->
               Series(s.df, s.donors[j], PreTimes(s.df, s.intervention_time))]

Yt_pre(s) == Series(s.df, s.treated_unit, PreTimes(s.df, s.intervention_time))

\* lines 156-162: one pass of the loop body.  When the pass leaves w as it
\* was, every later pass does too, and the loop is run to its end at once.
SCIterate ==
    /\ sc.pc = "loop"
    /\ sc.it < SCMaxIter
    /\ LET nxt == PgdStep(Xpre(sc), Yt_pre(sc), sc.v, sc.den)
       IN IF nxt.v = sc.v /\ nxt.den = sc.den
          THEN sc' = [sc EXCEPT !.it = NIter, !.pc = "fitted"]
          ELSE sc' = [sc EXCEPT !.it = sc.it + 1, !.v = nxt.v, !.den = nxt.den]
    /\ UNCHANGED <<sw, ds, cmp, call, agent>>

\* lines 164-183
SCResult(s) ==
    LET pre == PreTimes(s.df, s.intervention_time)
        post == PostTimes(s.df, s.intervention_time)
        Y == Yt_pre(s)
        X == Xpre(s)
        err == [t \in DOMAIN Y |->
                   s.den * Y[t] - Dot([j \in DOMAIN s.v |-> X[j][t]], s.v)]
        Ypost == Series(s.df, s.treated_unit, post)
        Xpost == [j \in DOMAIN s.donors |-> Series(s.df, s.donors[j], post)]
        gap == [t \in DOMAIN Ypost |->
                   s.den * Ypost[t] - Dot([j \in DOMAIN s.v |-> Xpost[j][t]], s.v)]
    IN [treated_unit |-> s.treated_unit,
        donor_units |-> s.donors,
        weights |-> [u \in Range(s.donors) |->
                        LET i == CHOOSE j \in DOMAIN s.donors :
                                    /\ s.donors[j] = u
                                    /\ \A k \in DOMAIN s.donors :
                                          s.donors[k] = u => k <= j
                        IN <<s.v[i], s.den>>],
        \* pre_rmse ** 2 and post_gap_mean as <<numerator, denominator>>
        pre_mse |-> IF pre = <<>> THEN NaN
                    ELSE <<Dot(err, err), s.den * s.den * Len(pre)>>,
        post_gap_mean |-> IF post = <<>> THEN NaN
                          ELSE <<SumSeq(gap), s.den * Len(post)>>,
        n_pre |-> Len(pre),
        n_post |-> Len(post)]

SCReturn ==
    /\ sc.pc = "fitted"
    /\ sc' = [sc EXCEPT !.pc = "returned", !.result = SCResult(sc)]
    /\ UNCHANGED <<sw, ds, cmp, call, agent>>

InitSC ==
    /\ sc \in {SCStart(in) : in \in SCInputs}
    /\ sw = Idle /\ ds = Idle /\ cmp = Idle /\ call = Idle /\ agent = Idle

NextSC ==
    \/ SCSetup
    \/ SCIterate
    \/ SCReturn

SpecSC == InitSC /\ [][NextSC]_vars

\* sum of the numerators of a weights mapping
RECURSIVE SumNum(_, _)
SumNum(weights, S) ==
    IF S = {} THEN 0
    ELSE LET u == CHOOSE x \in S : TRUE
         IN weights[u][1] + SumNum(weights, S \ {u})

\* C1: every weight of a returned weights mapping is >= 0 and the weights
\* sum to 1, also when a clip set every weight to 0.
C1_WeightsOnSimplex ==
    sc.pc = "returned" =>
        LET w == sc.result.weights
        IN /\ \A u \in DOMAIN w : w[u][1] >= 0 /\ w[u][2] > 0
           /\ \A u \in DOMAIN w : SumNum(w, DOMAIN w) = w[u][2]

\* C2: the treated unit of a returned fit is not among donor_units and is
\* not a key of weights.
C2_TreatedNotDonor ==
    sc.pc = "returned" =>
        /\ sc.result.treated_unit \notin Range(sc.result.donor_units)
        /\ sc.result.treated_unit \notin DOMAIN sc.result.weights

(***************************************************************************)
(* The robustness sweeps  (assistant/robustness.py)                        *)
(***************************************************************************)

\* bound on the number of entries of a requested list
MaxTrials == 2

\* bound on the period labels of the series given to the ITS sweep
SwMaxPeriod == 3

\* bound on the rows of that series
SwMaxRows == 2

\* `if len(d) < 20: raise`
MinObs == 20

\* The regression results (coefficients, p-values) are not computed: every
\* estimate is the same opaque value.
Est == "estimate"

\* A number as Python holds it, an int or a float of the same value.
Num(ty, val) == [ty |-> ty, val |-> val]

\* float(x)
Float(x) == [ty |-> "float", val |-> x.val]

\* Python's ==, which compares an int and a float by value
NumEq(a, b) == a.val = b.val

\* str(c) of a period label, which is a str already
Str(c) == c

\* The data of the RDD sweep: the number of rows at each running value.
RunVals == {-1, 0, 2}

RowCounts == {0, 10}

BwVals == {Num("int", 1), Num("float", 1), Num("float", 2)}

\* the row count with the boundary rows left out (< instead of <=)
RddNStrict(df, cutoff, bandwidth) ==
    LET inside == {r \in DOMAIN df : Abs(r - cutoff) < Float(bandwidth).val}
        RECURSIVE Count(_)
        Count(S) == IF S = {} THEN 0
                    ELSE LET r == CHOOSE x \in S : TRUE
                         IN df[r] + Count(S \ {r})
    IN Count(inside)

\* len(d) after d = d[np.abs(d["_r"]) <= float(bandwidth)]
RddN(df, cutoff, bandwidth) ==
    LET inside == {r \in DOMAIN df : Abs(r - cutoff) <= Float(bandwidth).val}
        RECURSIVE Count(_)
        Count(S) == IF S = {} THEN 0
                    ELSE LET r == CHOOSE x \in S : TRUE
                         IN df[r] + Count(S \ {r})
    IN Count(inside)

\* the regression tried before the rows in the bandwidth are counted
RegressionDiscontinuityFitFirst(df, cutoff, bandwidth, fitFails) ==
    IF fitFails
    THEN [raised |-> TRUE, error |-> "fit"]
    ELSE IF RddN(df, cutoff, bandwidth) < MinObs
    THEN [raised |-> TRUE, error |-> "Not enough observations in bandwidth to fit RDD."]
    ELSE [raised |-> FALSE, discontinuity |-> Est, p_value |-> Est,
          bandwidth |-> Float(bandwidth),
          model_summary |-> [n |-> RddN(df, cutoff, bandwidth)]]

\* regression_discontinuity (models/causal_estimators.py:66-96).  fitFails:
\* the regression backbone raises (non-finite data, numerical error).
RegressionDiscontinuity(df, cutoff, bandwidth, fitFails) ==
    IF RddN(df, cutoff, bandwidth) < MinObs
    THEN [raised |-> TRUE, error |-> "Not enough observations in bandwidth to fit RDD."]
    ELSE IF fitFails
    THEN [raised |-> TRUE, error |-> "fit"]
    ELSE [raised |-> FALSE, discontinuity |-> Est, p_value |-> Est,
          bandwidth |-> Float(bandwidth),
          model_summary |-> [n |-> RddN(df, cutoff, bandwidth)]]

\* interrupted_time_series (models/causal_estimators.py:15-57), ts the
\* period labels of its rows: raises when no row is at or after the
\* intervention time.
InterruptedTimeSeries(ts, intervention_time, fitFails) ==
    IF ~ \E i \in DOMAIN ts : ts[i] >= intervention_time
    THEN [raised |-> TRUE, error |-> "intervention_time is after all observations."]
    ELSE IF fitFails
    THEN [raised |-> TRUE, error |-> "fit"]
    ELSE [raised |-> FALSE, level_change |-> Est, p_level |-> Est,
          slope_change |-> Est, p_slope |-> Est]

\* synthetic_control as a sweep calls it (default donor pool): np.vstack
\* raises when there is no donor.
SyntheticControlCall(df, treated_unit, intervention_time, donor_units, fitFails) ==
    IF SCDonors(PanelUnits(df), treated_unit, donor_units) = <<>>
    THEN [raised |-> TRUE, error |-> "need at least one array to concatenate"]
    ELSE IF fitFails
    THEN [raised |-> TRUE, error |-> "fit"]
    ELSE [raised |-> FALSE, treated_unit |-> treated_unit,
          donor_units |-> SCDonors(PanelUnits(df), treated_unit, donor_units),
          pre_rmse |-> Est, post_gap_mean |-> Est]

\* robustness.py:19-23
RddRecordNoCatch(bw, r) ==
    [bandwidth |-> Float(bw), discontinuity |-> Est, p_value |-> Est, n |-> 0]

RddRecord(bw, r) ==
    IF r.raised
    THEN [bandwidth |-> Float(bw), error |-> r.error]
    ELSE [bandwidth |-> Float(bw), discontinuity |-> r.discontinuity,
          p_value |-> r.p_value, n |-> r.model_summary.n]

\* robustness.py:29-33
ItsRecord(c, r) ==
    IF r.raised
    THEN [cutoff |-> Str(c), error |-> r.error]
    ELSE [cutoff |-> Str(c), level_change |-> r.level_change, p_level |-> r.p_level,
          slope_change |-> r.slope_change, p_slope |-> r.p_slope]

\* robustness.py:48-52
PlaceboRecord(u, r) ==
    IF r.raised
    THEN [placebo_treated |-> u, error |-> r.error]
    ELSE [placebo_treated |-> u, pre_rmse |-> r.pre_rmse,
          post_gap_mean |-> r.post_gap_mean]

\* the list a sweep iterates over
RECURSIVE DedupNum(_)
DedupNum(l) ==
    IF l = <<>> THEN <<>>
    ELSE LET init == DedupNum(SubSeq(l, 1, Len(l) - 1))
             last == l[Len(l)]
         IN IF \E i \in DOMAIN init : NumEq(init[i], last)
            THEN init ELSE Append(init, last)

SweepItemsDedup(s) ==
    IF s.kind = "rdd" THEN DedupNum(s.bandwidths)
    ELSE IF s.kind = "its" THEN s.cutoffs
    ELSE SortedUnits(PanelUnits(s.df))

SweepItems(s) ==
    IF s.kind = "rdd" THEN s.bandwidths                 \* for bw in bandwidths
    ELSE IF s.kind = "its" THEN s.cutoffs               \* for c in cutoffs
    ELSE SortedUnits(PanelUnits(s.df))                  \* for u in units

\* Panels of the placebo sweep: which units have rows.
PlaceboPanels ==
    {[u \in SCUnits |-> [t \in SCPeriods |-> IF u \in S THEN 0 ELSE NA]] :
        S \in SUBSET SCUnits}

RddStarts ==
    {[pc |-> "loop", kind |-> "rdd", rows |-> df, cutoff |-> 0, bandwidths |-> bws,
      i |-> 1, out |-> <<>>, calls |-> <<>>] :
        df \in [RunVals -> RowCounts], bws \in SeqsUpTo(BwVals, MaxTrials)}

ItsStarts ==
    {[pc |-> "loop", kind |-> "its", ts |-> ts, cutoffs |-> cs,
      i |-> 1, out |-> <<>>, calls |-> <<>>] :
        ts \in SeqsUpTo(1..SwMaxPeriod, SwMaxRows),
        cs \in SeqsUpTo(1..(SwMaxPeriod + 1), MaxTrials)}

PlaceboStarts ==
    {[pc |-> "loop", kind |-> "placebo", df |-> df, treated_unit |-> T,
      intervention_time |-> 2, i |-> 1, out |-> <<>>, calls |-> <<>>] :
        df \in PlaceboPanels, T \in SCUnits}

\* One pass of the loop of rdd_bandwidth_sensitivity (lines 18-23).  calls
\* records what each estimator call did.
RddTrial ==
    /\ sw.pc = "loop" /\ sw.kind = "rdd"
    /\ sw.i <= Len(SweepItems(sw))
    /\ \E fitFails \in BOOLEAN :
          LET bw == SweepItems(sw)[sw.i]
              r == RegressionDiscontinuity(sw.rows, sw.cutoff, bw, fitFails)
          IN sw' = [sw EXCEPT !.out = Append(@, RddRecord(bw, r)),
                              !.calls = Append(@, r), !.i = @ + 1]
    /\ UNCHANGED <<sc, ds, cmp, call, agent>>

\* One pass of the loop of placebo_its_cutoffs (lines 28-33)
ItsTrial ==
    /\ sw.pc = "loop" /\ sw.kind = "its"
    /\ sw.i <= Len(SweepItems(sw))
    /\ \E fitFails \in BOOLEAN :
          LET c == SweepItems(sw)[sw.i]
              r == InterruptedTimeSeries(sw.ts, Str(c), fitFails)
          IN sw' = [sw EXCEPT !.out = Append(@, ItsRecord(c, r)),
                              !.calls = Append(@, r), !.i = @ + 1]
    /\ UNCHANGED <<sc, ds, cmp, call, agent>>

\* One pass of the loop of synthetic_control_placebos (lines 47-52)
PlaceboTrial ==
    /\ sw.pc = "loop" /\ sw.kind = "placebo"
    /\ sw.i <= Len(SweepItems(sw))
    /\ \E fitFails \in BOOLEAN :
          LET u == SweepItems(sw)[sw.i]
              r == SyntheticControlCall(sw.df, u, sw.intervention_time, None, fitFails)
          IN sw' = [sw EXCEPT !.out = Append(@, PlaceboRecord(u, r)),
                              !.calls = Append(@, r), !.i = @ + 1]
    /\ UNCHANGED <<sc, ds, cmp, call, agent>>

\* `return out`, after the last pass
SweepReturn ==
    /\ sw.pc = "loop"
    /\ sw.i > Len(SweepItems(sw))
    /\ sw' = [sw EXCEPT !.pc = "done"]
    /\ UNCHANGED <<sc, ds, cmp, call, agent>>

InitSweep ==
    /\ sw \in RddStarts \cup ItsStarts \cup PlaceboStarts
    /\ sc = Idle /\ ds = Idle /\ cmp = Idle /\ call = Idle /\ agent = Idle

NextSweep ==
    \/ RddTrial
    \/ ItsTrial
    \/ PlaceboTrial
    \/ SweepReturn

SpecSweep == InitSweep /\ [][NextSweep]_vars

EstimateFields(kind) ==
    IF kind = "rdd" THEN {"discontinuity", "p_value", "n"}
    ELSE IF kind = "its" THEN {"level_change", "p_level", "slope_change", "p_slope"}
    ELSE {"pre_rmse", "post_gap_mean"}

\* C3: in each sweep, a trial whose estimator call raised has a record with
\* an "error" field and no estimate field, a trial whose call returned has a
\* record with every estimate field and no "error" field, and the sweep ends
\* only after every trial has run, whatever failed before.
C3_PerTrialErrorOrResult ==
    sw.pc \in {"loop", "done"} =>
        /\ Len(sw.out) = Len(sw.calls)
        /\ \A k \in DOMAIN sw.out :
              IF sw.calls[k].raised
              THEN /\ "error" \in DOMAIN sw.out[k]
                   /\ DOMAIN sw.out[k] \cap EstimateFields(sw.kind) = {}
              ELSE /\ "error" \notin DOMAIN sw.out[k]
                   /\ EstimateFields(sw.kind) \subseteq DOMAIN sw.out[k]
        /\ sw.pc = "done" => Len(sw.out) = Len(SweepItems(sw))

\* a sweep that ended after a trial failed and a later trial returned
C3_Witness ==
    /\ sw.pc = "done"
    /\ \E j, k \in DOMAIN sw.out :
          j < k /\ sw.calls[j].raised /\ ~sw.calls[k].raised

\* C4: the bandwidth sweep returns one record per requested bandwidth, the
\* i-th record carrying the i-th requested bandwidth, duplicates and failed
\* fits included; the ITS placebo sweep does the same for its cutoffs.
C4_OneRowPerRequest ==
    /\ sw.pc \in {"loop", "done"} /\ sw.kind = "rdd" =>
          /\ Len(sw.out) <= Len(sw.bandwidths)
          /\ sw.pc = "done" => Len(sw.out) = Len(sw.bandwidths)
          /\ \A k \in DOMAIN sw.out : NumEq(sw.out[k].bandwidth, sw.bandwidths[k])
    /\ sw.pc \in {"loop", "done"} /\ sw.kind = "its" =>
          /\ Len(sw.out) <= Len(sw.cutoffs)
          /\ sw.pc = "done" => Len(sw.out) = Len(sw.cutoffs)
          /\ \A k \in DOMAIN sw.out : sw.out[k].cutoff = sw.cutoffs[k]

\* a finished bandwidth sweep over a list with a repeated bandwidth and a
\* failed fit
C4_Witness ==
    /\ sw.pc = "done" /\ sw.kind = "rdd"
    /\ \E j, k \in DOMAIN sw.bandwidths :
          j < k /\ NumEq(sw.bandwidths[j], sw.bandwidths[k])
    /\ \E k \in DOMAIN sw.calls : sw.calls[k].raised

\* C5: synthetic_control_placebos(treated_unit=T) returns exactly one record
\* for each unit of the panel other than T, and none for T.
C5_PlacebosSkipTreated ==
    sw.pc = "done" /\ sw.kind = "placebo" =>
        /\ \A k \in DOMAIN sw.out : sw.out[k].placebo_treated # sw.treated_unit
        /\ \A u \in PanelUnits(sw.df) \ {sw.treated_unit} :
              Cardinality({k \in DOMAIN sw.out : sw.out[k].placebo_treated = u}) = 1
        /\ Len(sw.out) = Cardinality(PanelUnits(sw.df) \ {sw.treated_unit})

(***************************************************************************)
(* donor_pool_search  (models/synth_opt.py:14-99)                          *)
(*                                                                         *)
(* The panel enters the search through its units, its period labels and    *)
(* two numerical results the model takes as inputs: the pre-period         *)
(* correlation of each donor with the treated series (np.corrcoef) and     *)
(* the pre_rmse of the synthetic_control fit of each donor list.  RMSEs    *)
(* are integers in units of half the early-stop tolerance; outcomes are    *)
(* finite, so every pre_rmse is.                                           *)
(***************************************************************************)

\* bound on max_donors and top_k_candidates
MaxCap == 4

\* the pre_rmse of a fit is RmseBase less the gains of its donors
RmseBase == 10

\* the period labels of the panel are 1..DsPeriods
DsPeriods == 6

\* `if len(pre_times) < 6`
MinPre == 6

\* `abs(best_step_rmse - best_rmse) < 1e-6`, in RMSE units
Tol == 2

\* `step >= 2`
EarlyStopFrom == 2

\* candidates[:max(1, min(5, len(candidates)))]
FallbackDonors == 5

\* float("inf")
Inf == 1000000

DsPool == <<"B", "C", "D", "E">>

DsGains == {-1, 0, 3}

\* correlations, in hundredths
DsCorrs ==
    {[u \in Range(DsPool) |-> 0],
     [u \in Range(DsPool) |-> 10 * UnitRank(u)],
     [u \in Range(DsPool) |-> IF u \in {"C", "E"} THEN 90 ELSE 20]}

DsInputs ==
    [units : {{"A"} \cup Range(SubSeq(DsPool, 1, n)) : n \in 0..Len(DsPool)},
     treated_unit : {"A"},
     periods : {1..DsPeriods},
     intervention_time : MinPre..(DsPeriods + 1),
     max_donors : 0..MaxCap,
     top_k_candidates : 0..MaxCap,
     corr : DsCorrs,
     gain : [Range(DsPool) -> DsGains]]

\* Inputs that differ only in a unit the panel does not hold are one input.
DsCanonical(in) ==
    \A u \in Range(DsPool) \ in.units :
        in.gain[u] = 0 /\ in.corr[u] = in.corr["B"]

RECURSIVE SumGain(_, _)
SumGain(gain, S) ==
    IF S = {} THEN 0
    ELSE LET u == CHOOSE x \in S : TRUE
         IN gain[u] + SumGain(gain, S \ {u})

\* res.pre_rmse of synthetic_control(..., donor_units=donors)
PreRmse(in, donors) == Max(0, RmseBase - SumGain(in.gain, Range(donors)))

\* synthetic_control as the search calls it; fitFails: the call raises for
\* a cause the model does not compute (numerical error state, memory).
DsFit(in, donor_units, fitFails) ==
    LET donors == SCDonors(in.units, in.treated_unit, donor_units)
    IN IF donors = <<>>
       THEN [raised |-> TRUE, error |-> "need at least one array to concatenate"]
       ELSE IF fitFails
       THEN [raised |-> TRUE, error |-> "fit"]
       ELSE [raised |-> FALSE, treated_unit |-> in.treated_unit,
             donor_units |-> donors, pre_rmse |-> PreRmse(in, donors),
             post_gap_mean |-> Est]

\* line 35
AllDonors(in) == SortedUnits({u \in in.units : u # in.treated_unit})

\* lines 37-38
DsPreTimes(in) == SelectSeq(SortedInts(in.periods), LAMBDA t : t < in.intervention_time)

\* line 39
IsShortPreLoose(pre_times) == Len(pre_times) <= MinPre

IsShortPre(pre_times) == Len(pre_times) < MinPre

\* the donors left in unit order
SortByCorrNone(l, corr) == l

\* scored.sort(key=lambda x: x[1], reverse=True): a stable sort, highest
\* correlation first
SortByCorrDesc(l, corr) == SortDescBy(l, [i \in DOMAIN l |-> corr[l[i]]])

\* lines 50-60
Candidates(in) ==
    LET scored == SortByCorrDesc(AllDonors(in), in.corr)
    IN Take(scored, Max(1, Min(in.top_k_candidates, Len(scored))))

\* range(min(max_donors, len(candidates)))
NSteps(in, candidates) == Max(0, Min(in.max_donors, Len(candidates)))

DsStart(in) ==
    [pc |-> "called", in |-> in, candidates |-> <<>>, tried |-> <<>>,
     selected |-> <<>>, best_res |-> None, best_rmse |-> Inf,
     step |-> 0, j |-> 1, best_step |-> None, best_step_rmse |-> Inf,
     best_step_res |-> None,
     \* history: fits performed, best_rmse before the latest step, whether
     \* the fit of a greedy trial raised
     fits |-> 0, best_before |-> Inf, trial_raised |-> FALSE]

\* lines 32-43: the fallback for a short pre-period
DsFallbackOn(d, d2) ==
    /\ d.pc = "called"
    /\ IsShortPre(DsPreTimes(d.in))
    /\ \E fitFails \in BOOLEAN :
          LET base == DsFit(d.in, None, fitFails)
          IN IF base.raised
             THEN d2 = [d EXCEPT !.pc = "raised", !.fits = @ + 1]
             ELSE d2 = [d EXCEPT !.pc = "done", !.fits = @ + 1,
                            !.best_res = Some(base),
                            !.tried = <<[note |-> "fallback_small_pre_period",
                                         pre_times_n |-> Len(DsPreTimes(d.in))]>>]

DsFallback ==
    /\ DsFallbackOn(ds, ds')
    /\ UNCHANGED <<sc, sw, cmp, call, agent>>

\* lines 45-66: score the donors, keep the top candidates
DsScoreOn(d, d2) ==
    /\ d.pc = "called"
    /\ ~IsShortPre(DsPreTimes(d.in))
    /\ LET candidates == Candidates(d.in)
       IN d2 = [d EXCEPT !.candidates = candidates,
                    !.pc = IF NSteps(d.in, candidates) > 0 THEN "trial" ELSE "finish"]

DsScore ==
    /\ DsScoreOn(ds, ds')
    /\ UNCHANGED <<sc, sw, cmp, call, agent>>

\* the next candidate at or after position j, selected or not
NextCandidateAll(d) ==
    IF d.j <= Len(d.candidates) THEN d.j ELSE 0

\* the next candidate at or after position j that is not selected yet
\* (`if u in selected: continue`), 0 when there is none
NextCandidate(d) ==
    LET open == {k \in d.j..Len(d.candidates) :
                    d.candidates[k] \notin Range(d.selected)}
    IN IF open = {} THEN 0 ELSE CHOOSE k \in open : \A m \in open : k <= m

\* lines 73-84: one pass of the inner loop for a candidate not selected
DsTrialOn(d, d2) ==
    /\ d.pc = "trial"
    /\ NextCandidate(d) # 0
    /\ \E fitFails \in BOOLEAN :
          LET k == NextCandidate(d)
              u == d.candidates[k]
              donors == d.selected \o <<u>>
              res == DsFit(d.in, Some(donors), fitFails)
          IN IF res.raised
             THEN d2 = [d EXCEPT !.pc = "raised", !.fits = @ + 1,
                                   !.trial_raised = TRUE]
             ELSE LET better == res.pre_rmse < d.best_step_rmse
                  IN d2 = [d EXCEPT
                       !.fits = @ + 1,
                       !.j = k + 1,
                       !.tried = Append(@, [step |-> d.step + 1,
                                            donors_n |-> Len(donors),
                                            candidate_added |-> u,
                                            pre_rmse |-> res.pre_rmse,
                                            post_gap_mean |-> res.post_gap_mean]),
                       !.best_step_rmse = IF better THEN res.pre_rmse ELSE @,
                       !.best_step = IF better THEN Some(u) ELSE @,
                       !.best_step_res = IF better THEN Some(res) ELSE @]

DsTrial ==
    /\ DsTrialOn(ds, ds')
    /\ UNCHANGED <<sc, sw, cmp, call, agent>>

\* line 92: the early stop, tested after best_rmse was updated
EarlyStop(step, best_step_rmse, best_rmse) ==
    step >= EarlyStopFrom /\ Abs(best_step_rmse - best_rmse) < Tol

\* the end of a greedy step that keeps the fit of the latest step as the
\* best fit, better or not
DsStepEndOnLatest(d, d2) ==
    /\ d.pc = "trial"
    /\ NextCandidate(d) = 0
    /\ IF d.best_step = None
       THEN d2 = [d EXCEPT !.pc = "finish"]
       ELSE LET best_rmse == d.best_step_rmse
                stop == \/ EarlyStop(d.step, d.best_step_rmse, best_rmse)
                        \/ d.step + 1 >= NSteps(d.in, d.candidates)
            IN d2 = [d EXCEPT
                 !.selected = Append(@, The(d.best_step)),
                 !.best_before = d.best_rmse,
                 !.best_rmse = best_rmse,
                 !.best_res = d.best_step_res,
                 !.step = IF stop THEN @ ELSE @ + 1,
                 !.j = 1,
                 !.best_step = None, !.best_step_rmse = Inf, !.best_step_res = None,
                 !.pc = IF stop THEN "finish" ELSE "trial"]

\* lines 85-93: the end of a greedy step
DsStepEndOn(d, d2) ==
    /\ d.pc = "trial"
    /\ NextCandidate(d) = 0
    /\ IF d.best_step = None
       THEN d2 = [d EXCEPT !.pc = "finish"]
       ELSE LET improved == d.best_step_rmse < d.best_rmse
                best_rmse == IF improved THEN d.best_step_rmse ELSE d.best_rmse
                stop == \/ EarlyStop(d.step, d.best_step_rmse, best_rmse)
                        \/ d.step + 1 >= NSteps(d.in, d.candidates)
            IN d2 = [d EXCEPT
                 !.selected = Append(@, The(d.best_step)),
                 !.best_before = d.best_rmse,
                 !.best_rmse = best_rmse,
                 !.best_res = IF improved THEN d.best_step_res ELSE @,
                 !.step = IF stop THEN @ ELSE @ + 1,
                 !.j = 1,
                 !.best_step = None, !.best_step_rmse = Inf, !.best_step_res = None,
                 !.pc = IF stop THEN "finish" ELSE "trial"]

DsStepEnd ==
    /\ DsStepEndOn(ds, ds')
    /\ UNCHANGED <<sc, sw, cmp, call, agent>>

\* lines 95-99
DsFinishOn(d, d2) ==
    /\ d.pc = "finish"
    /\ IF d.best_res # None
       THEN d2 = [d EXCEPT !.pc = "done"]
       ELSE \E fitFails \in BOOLEAN :
               LET n == Max(1, Min(FallbackDonors, Len(d.candidates)))
                   res == DsFit(d.in, Some(Take(d.candidates, n)), fitFails)
               IN IF res.raised
                  THEN d2 = [d EXCEPT !.pc = "raised", !.fits = @ + 1]
                  ELSE d2 = [d EXCEPT !.pc = "done", !.fits = @ + 1,
                                        !.best_res = Some(res)]

DsFinish ==
    /\ DsFinishOn(ds, ds')
    /\ UNCHANGED <<sc, sw, cmp, call, agent>>

InitDonor ==
    /\ ds \in {DsStart(in) : in \in {x \in DsInputs : DsCanonical(x)}}
    /\ sc = Idle /\ sw = Idle /\ cmp = Idle /\ call = Idle /\ agent = Idle

NextDonor ==
    \/ DsFallback
    \/ DsScore
    \/ DsTrial
    \/ DsStepEnd
    \/ DsFinish

SpecDonor == InitDonor /\ [][NextDonor]_vars

\* C6: when the fit of a greedy trial raises, the failure is recorded as an
\* error entry of the trial log and the search goes on.
C6_TrialFailureRecorded ==
    ds.pc # "idle" /\ ds.trial_raised =>
        /\ ds.pc # "raised"
        /\ \E k \in DOMAIN ds.tried : "error" \in DOMAIN ds.tried[k]

\* C7: the greedy loop ends only when max_donors donors are selected, when
\* no candidate remains, or when the latest step improved the best pre-period
\* RMSE by less than the tolerance.
C7_LoopEndsOnlyOnCapOrNoGain ==
    ds.pc = "finish" =>
        \/ Len(ds.selected) >= ds.in.max_donors
        \/ Range(ds.candidates) \subseteq Range(ds.selected)
        \/ ds.best_before - ds.best_rmse < Tol

\* C8: when the search runs, the best fit has at most max_donors donors, each
\* of them among the top_k_candidates donors of highest correlation, and at
\* most max_donors x top_k_candidates fits are performed.
C8_CapsBoundTheSearch ==
    ds.pc = "done" /\ Len(DsPreTimes(ds.in)) >= MinPre =>
        LET best == The(ds.best_res)
            all == {u \in ds.in.units : u # ds.in.treated_unit}
        IN /\ Len(best.donor_units) <= ds.in.max_donors
           /\ \A u \in Range(best.donor_units) :
                 /\ u \in all
                 /\ Cardinality({x \in all : ds.in.corr[x] > ds.in.corr[u]})
                       < ds.in.top_k_candidates
           /\ ds.fits <= ds.in.max_donors * ds.in.top_k_candidates

IsTrialRecord(r) == "step" \in DOMAIN r

IsFallbackFlag(r) == "note" \in DOMAIN r

\* C9: with fewer than 6 distinct periods before intervention_time the search
\* performs no greedy trial, returns the baseline fit over every unit other
\* than the treated one, and logs exactly the fallback flag; with 6 or more
\* the fallback flag never appears in the log.
C9_ShortPreFallback ==
    ds.pc # "idle" =>
        LET n_pre == Cardinality({t \in ds.in.periods : t < ds.in.intervention_time})
        IN /\ n_pre < MinPre =>
                 /\ \A k \in DOMAIN ds.tried : ~IsTrialRecord(ds.tried[k])
                 /\ ds.selected = <<>>
                 /\ ds.pc = "done" =>
                       /\ ds.tried = <<[note |-> "fallback_small_pre_period",
                                        pre_times_n |-> n_pre]>>
                       /\ The(ds.best_res).donor_units
                             = SortedUnits(ds.in.units \ {ds.in.treated_unit})
                       /\ ds.fits = 1
           /\ n_pre >= MinPre =>
                 \A k \in DOMAIN ds.tried : ~IsFallbackFlag(ds.tried[k])

\* a search over a short pre-period that returned its fallback
C9_Witness ==
    /\ ds.pc = "done"
    /\ Len(DsPreTimes(ds.in)) = MinPre - 1
    /\ Len(ds.tried) = 1 /\ IsFallbackFlag(ds.tried[1])
    /\ Len(The(ds.best_res).donor_units) >= 2

(***************************************************************************)
(* compare_did_models  (models/model_comparison.py:24-72)                  *)
(***************************************************************************)

\* bound on the number of candidate covariate sets
MaxCand == 3

\* math.exp(-0.5 * d) in thousandths: exp(-0.5) = 0.607
ExpScale == 1000

ExpHalf == 607

\* the BIC and AIC of the fitted OLS models (statsmodels m.bic, m.aic)
BicVals == {100, 102, 105}

\* rows of the panel
NObs == 48

\* the fitted statsmodels result `m` of one candidate
FittedModels == [bic : BicVals, aic : {90}, nobs : {NObs}]

\* difference_in_differences (models/causal_plus.py:13-47): the result
\* built from the fitted model m
DifferenceInDifferences(m) ==
    [att |-> Est, p_value |-> Est,
     model_summary |-> [n |-> m.nobs, r2 |-> Est]]

\* dict.get(key, default)
Get(d, key, default) == IF key \in DOMAIN d THEN d[key] ELSE default

\* lines 55-58: the summary's "bic"; a missing one is nan, and then the
\* summary's "aic", 0.0 when that is missing too
SummaryBic(model_summary) ==
    IF "bic" \in DOMAIN model_summary THEN model_summary.bic
    ELSE Get(model_summary, "aic", 0)

RECURSIVE ExpNegHalf(_)
ExpNegHalf(d) == IF d <= 0 THEN ExpScale ELSE (ExpNegHalf(d - 1) * ExpHalf) \div ExpScale

RECURSIVE MinSeq(_)
MinSeq(l) == IF Len(l) = 1 THEN l[1] ELSE Min(Head(l), MinSeq(Tail(l)))

\* bic_weights without the division by the sum
BicWeightsUnnormalised(bics) ==
    LET bmin == MinSeq(bics)
    IN [i \in DOMAIN bics |-> <<ExpNegHalf(bics[i] - bmin), ExpScale>>]

\* bic_weights (lines 17-22): the weights as <<numerator, denominator>>
BicWeights(bics) ==
    LET bmin == MinSeq(bics)
        w == [i \in DOMAIN bics |-> ExpNegHalf(bics[i] - bmin)]
        s == IF SumSeq(w) = 0 THEN ExpScale ELSE SumSeq(w)
    IN [i \in DOMAIN bics |-> <<w[i], s>>]

CmpStart(models) ==
    [pc |-> "loop", models |-> models, i |-> 1, bics |-> <<>>, tmp |-> <<>>,
     scores |-> <<>>]

\* lines 44-60: one pass of the loop; the fit may raise, and the error
\* is not caught
CmpFit ==
    /\ cmp.pc = "loop"
    /\ cmp.i <= Len(cmp.models)
    /\ \E fitFails \in BOOLEAN :
          IF fitFails
          THEN cmp' = [cmp EXCEPT !.pc = "raised"]
          ELSE LET res == DifferenceInDifferences(cmp.models[cmp.i])
                   bic == SummaryBic(res.model_summary)
               IN cmp' = [cmp EXCEPT !.i = @ + 1,
                                     !.bics = Append(@, bic),
                                     !.tmp = Append(@, [name |-> cmp.i, bic |-> bic,
                                                        res |-> res])]
    /\ UNCHANGED <<sc, sw, ds, call, agent>>

\* lines 62-72: weights, scores, sorted by weight descending.  min() of
\* an empty list raises.
CmpRank ==
    /\ cmp.pc = "loop"
    /\ cmp.i > Len(cmp.models)
    /\ IF cmp.bics = <<>>
       THEN cmp' = [cmp EXCEPT !.pc = "raised"]
       ELSE LET ws == BicWeights(cmp.bics)
                scores == [i \in DOMAIN cmp.tmp |->
                              [name |-> cmp.tmp[i].name,
                               bic |-> cmp.tmp[i].bic,
                               n |-> Get(cmp.tmp[i].res.model_summary, "n", 0),
                               k |-> Get(cmp.tmp[i].res.model_summary, "k", 0),
                               weight |-> ws[i]]]
            IN cmp' = [cmp EXCEPT !.pc = "done",
                          !.scores = SortDescBy(scores,
                                        [i \in DOMAIN scores |-> scores[i].weight[1]])]
    /\ UNCHANGED <<sc, sw, ds, call, agent>>

InitCompare ==
    /\ cmp \in {CmpStart(models) : models \in SeqsUpTo(FittedModels, MaxCand)}
    /\ sc = Idle /\ sw = Idle /\ ds = Idle /\ call = Idle /\ agent = Idle

NextCompare ==
    \/ CmpFit
    \/ CmpRank

SpecCompare == InitCompare /\ [][NextCompare]_vars

\* C10: the bic of each returned score is the BIC of that candidate's fitted
\* model, candidates whose fits differ in BIC differ in weight, and the list
\* is ordered by weight descending with a lowest-BIC candidate first.
C10_ScoresCarryFittedBic ==
    cmp.pc = "done" =>
        LET sc_ == cmp.scores
            fitted(k) == cmp.models[sc_[k].name].bic
        IN /\ \A k \in DOMAIN sc_ : sc_[k].bic = fitted(k)
           /\ \A j, k \in DOMAIN sc_ :
                 fitted(j) # fitted(k) => sc_[j].weight # sc_[k].weight
           /\ \A j, k \in DOMAIN sc_ :
                 j < k => sc_[j].weight[1] >= sc_[k].weight[1]
           /\ \A k \in DOMAIN sc_ : fitted(1) <= fitted(k)

(***************************************************************************)
(* bic_weights called directly  (models/model_comparison.py:17-22)         *)
(***************************************************************************)

\* bound on the length of the list of BICs
MaxBics == 3

\* finite BIC values; a difference of 13 or more underflows exp() to 0 in
\* the model's thousandths (in the code, a difference above about 1490)
BicInputs == {-3, 0, 1, 20}

BicStart(bics) == [pc |-> "called", fn |-> "bic_weights", bics |-> bics]

\* the call: min() of an empty list raises ValueError
BicWeightsCall ==
    /\ call.pc = "called" /\ call.fn = "bic_weights"
    /\ call' = IF call.bics = <<>>
               THEN [call EXCEPT !.pc = "raised"]
               ELSE [pc |-> "returned", fn |-> "bic_weights", bics |-> call.bics,
                     result |-> BicWeights(call.bics)]
    /\ UNCHANGED <<sc, sw, ds, cmp, agent>>

InitBic ==
    /\ call \in {BicStart(bics) : bics \in SeqsUpTo(BicInputs, MaxBics)}
    /\ sc = Idle /\ sw = Idle /\ ds = Idle /\ cmp = Idle /\ agent = Idle

NextBic == BicWeightsCall

SpecBic == InitBic /\ [][NextBic]_vars

\* C11: for a non-empty list of finite BICs, bic_weights returns one weight
\* per input, every weight is >= 0, the weights sum to 1, and
\* bic_i <= bic_j implies weight_i >= weight_j (so a minimum-BIC input has
\* the maximum weight).
C11_BicWeightsNormalisedMonotone ==
    (call.pc = "returned" /\ call.fn = "bic_weights") =>
        LET b == call.bics
            w == call.result
        IN /\ DOMAIN w = DOMAIN b
           /\ \A i \in DOMAIN w : w[i][1] >= 0 /\ w[i][2] > 0
           /\ \A i \in DOMAIN w :
                 SumSeq([k \in DOMAIN w |-> w[k][1]]) = w[i][2]
           /\ \A i, j \in DOMAIN w :
                 b[i] <= b[j] => w[i][1] * w[j][2] >= w[j][1] * w[i][2]
           /\ \A i \in DOMAIN w :
                 b[i] = MinSeq(b) =>
                    \A j \in DOMAIN w : w[i][1] * w[j][2] >= w[j][1] * w[i][2]

\* three different BICs, the largest so far from the minimum that its
\* weight underflows to 0
C11_Witness ==
    /\ call.pc = "returned" /\ call.fn = "bic_weights"
    /\ call.bics = <<20, -3, 1>>
    /\ call.result[1][1] = 0
    /\ call.result[2][1] > call.result[3][1]
    /\ call.result[3][1] > 0

(***************************************************************************)
(* Failure contracts of interrupted_time_series and synthetic_control      *)
(***************************************************************************)

\* C12: a call of interrupted_time_series whose intervention_time is at or
\* after every observed period (>= the latest period label) raises and
\* returns no result.
C12_ItsRaisesAtOrAfterLast ==
    (sw.pc # "idle" /\ sw.kind = "its") =>
        \A i \in DOMAIN sw.calls :
            (\A r \in DOMAIN sw.ts : Str(sw.cutoffs[i]) >= sw.ts[r])
                => sw.calls[i].raised

\* C13: a call of synthetic_control whose intervention_time is earlier
\* than the first or later than the last observed period raises: a call
\* that returned had its intervention_time inside the observed range.
C13_ScRaisesOutsideRange ==
    (sc.pc = "returned" /\ AllTimes(sc.df) # <<>>) =>
        LET all_times == AllTimes(sc.df)
        IN /\ sc.intervention_time >= all_times[1]
           /\ sc.intervention_time <= all_times[Len(all_times)]

(***************************************************************************)
(* regression_discontinuity called directly                                *)
(* (models/causal_estimators.py:66-96)                                     *)
(***************************************************************************)

NotEnough == "Not enough observations in bandwidth to fit RDD."

RddCutoffs == {-1, 0, 1}

RddStart(rows, cutoff, bandwidth) ==
    [pc |-> "called", fn |-> "regression_discontinuity", rows |-> rows,
     cutoff |-> cutoff, bandwidth |-> bandwidth]

\* lines 77-83: the rows inside the bandwidth (d, as the number of rows at
\* each running value kept), the minimum-size check, the _treat column
RddFilter ==
    /\ call.pc = "called" /\ call.fn = "regression_discontinuity"
    /\ LET _r == [r \in DOMAIN call.rows |-> r - call.cutoff]
           kept == {r \in DOMAIN call.rows :
                       call.rows[r] > 0 /\ Abs(_r[r]) <= Float(call.bandwidth).val}
           d == [r \in kept |-> call.rows[r]]
       IN IF RddN(call.rows, call.cutoff, call.bandwidth) < MinObs
          THEN call' = [pc |-> "raised", fn |-> call.fn, rows |-> call.rows,
                        cutoff |-> call.cutoff, bandwidth |-> call.bandwidth,
                        error |-> NotEnough]
          ELSE call' = [pc |-> "design", fn |-> call.fn, rows |-> call.rows,
                        cutoff |-> call.cutoff, bandwidth |-> call.bandwidth,
                        d |-> d,
                        _treat |-> [r \in kept |-> IF _r[r] >= 0 THEN 1 ELSE 0]]
    /\ UNCHANGED <<sc, sw, ds, cmp, agent>>

\* lines 85-96: the design matrix and the fit.  fitFails: d[X_cols],
\* d[y_col].astype(float) or the regression backbone raises (a missing or
\* non-numeric column, non-finite values in the design).
RddFit ==
    /\ call.pc = "design" /\ call.fn = "regression_discontinuity"
    /\ \E fitFails \in BOOLEAN :
          LET r == RegressionDiscontinuity(call.rows, call.cutoff,
                                           call.bandwidth, fitFails)
          IN IF r.raised
             THEN call' = [pc |-> "raised", fn |-> call.fn, rows |-> call.rows,
                           cutoff |-> call.cutoff, bandwidth |-> call.bandwidth,
                           error |-> r.error]
             ELSE call' = [pc |-> "returned", fn |-> call.fn, rows |-> call.rows,
                           cutoff |-> call.cutoff, bandwidth |-> call.bandwidth,
                           d |-> call.d, _treat |-> call._treat, result |-> r]
    /\ UNCHANGED <<sc, sw, ds, cmp, agent>>

InitRdd ==
    /\ call \in {RddStart(rows, c, bw) :
                    rows \in [RunVals -> RowCounts], c \in RddCutoffs, bw \in BwVals}
    /\ sc = Idle /\ sw = Idle /\ ds = Idle /\ cmp = Idle /\ agent = Idle

NextRdd ==
    \/ RddFilter
    \/ RddFit

SpecRdd == InitRdd /\ [][NextRdd]_vars

\* the rows with |running value - cutoff| <= bandwidth, boundary included
RowsInside(c) ==
    {r \in DOMAIN c.rows :
        c.rows[r] > 0 /\ r - c.cutoff <= c.bandwidth.val
                      /\ c.cutoff - r <= c.bandwidth.val}

RECURSIVE RowTotal(_, _)
RowTotal(rows, S) ==
    IF S = {} THEN 0
    ELSE LET r == CHOOSE x \in S : TRUE IN rows[r] + RowTotal(rows, S \ {r})

\* C14 as stated: the call raises if and only if fewer than 20 rows lie
\* inside the bandwidth (boundary rows inside).
C14_RaisesIffFewerThan20 ==
    (call.fn = "regression_discontinuity" /\ call.pc \in {"raised", "returned"}) =>
        (call.pc = "raised" <=> RowTotal(call.rows, RowsInside(call)) < MinObs)

\* C14, amended: the call raises its not-enough-observations error if and
\* only if fewer than 20 rows lie inside the bandwidth (boundary rows
\* inside); with 20 or more it goes on to the fit, the fit uses exactly
\* those rows, a row is treated iff its running value is >= cutoff, and
\* any error then is one of the fit.
C14_RejectsIffFewerThan20 ==
    (call.fn = "regression_discontinuity" /\ call.pc # "called") =>
        LET inside == RowsInside(call)
            n == RowTotal(call.rows, inside)
        IN /\ (call.pc = "raised" /\ call.error = NotEnough) <=> n < MinObs
           /\ call.pc \in {"design", "returned"} =>
                 /\ DOMAIN call.d = inside
                 /\ \A r \in inside : call.d[r] = call.rows[r]
                 /\ \A r \in inside : call._treat[r] = 1 <=> r >= call.cutoff
           /\ call.pc = "returned" =>
                 /\ call.result.model_summary.n = n
                 /\ NumEq(call.result.bandwidth, call.bandwidth)

\* a fit on exactly 20 rows, half of them on the boundary of the bandwidth
\* and untreated, the other half treated
C14_Witness ==
    /\ call.fn = "regression_discontinuity" /\ call.pc = "returned"
    /\ call.result.model_summary.n = MinObs
    /\ \E r \in DOMAIN call.d :
          call.cutoff - r = call.bandwidth.val /\ call._treat[r] = 0
    /\ \E r \in DOMAIN call.d : call._treat[r] = 1
    /\ \E r \in DOMAIN call.rows : call.rows[r] > 0 /\ r \notin DOMAIN call.d

(***************************************************************************)
(* event_study  (models/causal_plus.py:62-112)                             *)
(***************************************************************************)

\* bound on the offsets of the window: k_min, k_max in -EsMaxK..EsMaxK
EsMaxK == 2

EsInputs ==
    [k_min : (0 - EsMaxK)..EsMaxK, k_max : (0 - EsMaxK)..EsMaxK,
     omit_k : (0 - EsMaxK - 1)..(EsMaxK + 1)]

\* list(range(a, b + 1))
RECURSIVE RangeList(_, _)
RangeList(a, b) == IF a > b THEN <<>> ELSE <<a>> \o RangeList(a + 1, b)

\* the window with no offset left out
EsKsNoOmit(k_min, k_max, omit_k) == RangeList(k_min, k_max)

\* line 83: ks = [k for k in range(k_min, k_max + 1) if k != omit_k]
EsKs(k_min, k_max, omit_k) ==
    SelectSeq(RangeList(k_min, k_max), LAMBDA k : k # omit_k)

\* _kname (lines 55-60): "k_m<|k|>", "k_p<k>" or "k_0"
KName(k) ==
    IF k < 0 THEN <<"k_m", Abs(k)>>
    ELSE IF k > 0 THEN <<"k_p", k>>
    ELSE <<"k_", 0>>

\* list.index(name); 0 stands for the ValueError of a missing name
IndexOf(l, name) ==
    IF \E i \in DOMAIN l : l[i] = name
    THEN CHOOSE i \in DOMAIN l : l[i] = name /\ \A j \in 1..(i - 1) : l[j] # name
    ELSE 0

\* an empty dict, and d[key] = value
EmptyDict == [k \in {} |-> Est]

DictSet(d, key, value) ==
    [k \in DOMAIN d \cup {key} |-> IF k = key THEN value ELSE d[k]]

EsStart(in) ==
    [pc |-> "called", fn |-> "event_study", k_min |-> in.k_min, k_max |-> in.k_max,
     omit_k |-> in.omit_k, ks |-> <<>>, exog_names |-> <<>>, i |-> 1,
     coef_by_k |-> EmptyDict, p_by_k |-> EmptyDict]

\* lines 79-98: the offsets, one dummy column per offset, the formula and
\* the fit.  exog_names: the columns of the fitted design that the formula
\* names (the intercept, treated_col, one per offset).
EsFit ==
    /\ call.pc = "called" /\ call.fn = "event_study"
    /\ \E fitFails \in BOOLEAN :
          IF fitFails
          THEN call' = [call EXCEPT !.pc = "raised"]
          ELSE LET ks == EsKs(call.k_min, call.k_max, call.omit_k)
                   name_by_k == [i \in DOMAIN ks |-> KName(ks[i])]
               IN call' = [call EXCEPT !.pc = "collect", !.ks = ks,
                              !.exog_names = <<<<"Intercept", 0>>, <<"treated", 0>>>>
                                                \o name_by_k]
    /\ UNCHANGED <<sc, sw, ds, cmp, agent>>

\* lines 102-106: one pass of `for k in ks`
EsCollect ==
    /\ call.pc = "collect" /\ call.fn = "event_study"
    /\ call.i <= Len(call.ks)
    /\ LET k == call.ks[call.i]
           idx == IndexOf(call.exog_names, KName(k))
       IN IF idx = 0
          THEN call' = [call EXCEPT !.pc = "raised"]
          ELSE call' = [call EXCEPT !.i = @ + 1,
                                    !.coef_by_k = DictSet(@, k, Est),
                                    !.p_by_k = DictSet(@, k, Est)]
    /\ UNCHANGED <<sc, sw, ds, cmp, agent>>

\* lines 108-112
EsReturn ==
    /\ call.pc = "collect" /\ call.fn = "event_study"
    /\ call.i > Len(call.ks)
    /\ call' = [call EXCEPT !.pc = "returned"]
    /\ UNCHANGED <<sc, sw, ds, cmp, agent>>

InitEs ==
    /\ call \in {EsStart(in) : in \in EsInputs}
    /\ sc = Idle /\ sw = Idle /\ ds = Idle /\ cmp = Idle /\ agent = Idle

NextEs ==
    \/ EsFit
    \/ EsCollect
    \/ EsReturn

SpecEs == InitEs /\ [][NextEs]_vars

\* C15: the keys of coef_by_k are the keys of p_by_k and are
\* {k_min..k_max} minus {omit_k}: omit_k is never a key, and with omit_k
\* outside [k_min, k_max] every offset of the window is a key.
C15_KeysAreWindowMinusOmitted ==
    (call.fn = "event_study" /\ call.pc = "returned") =>
        LET window == call.k_min..call.k_max
        IN /\ DOMAIN call.coef_by_k = DOMAIN call.p_by_k
           /\ DOMAIN call.coef_by_k = window \ {call.omit_k}
           /\ call.omit_k \notin DOMAIN call.coef_by_k
           /\ call.omit_k \notin window => DOMAIN call.coef_by_k = window

\* a returned event study whose omitted offset lies strictly inside a
\* window with offsets on both sides of 0
C15_Witness ==
    /\ call.fn = "event_study" /\ call.pc = "returned"
    /\ call.k_min < call.omit_k /\ call.omit_k < call.k_max
    /\ call.k_min < 0 /\ call.k_max > 0
    /\ Cardinality(DOMAIN call.coef_by_k) = call.k_max - call.k_min

(***************************************************************************)
(* covariate_set_sensitivity  (models/sensitivity.py:14-66)                *)
(***************************************************************************)

\* bounds: the length of base_covariates and the largest max_models
CsMaxCovs == 3

CsMaxModels == 9

CovNames == {"x1", "x2", "x3"}

\* the order of str values that sorted() uses
CovRank(c) == IF c = "x1" THEN 1 ELSE IF c = "x2" THEN 2 ELSE 3

\* list(dict.fromkeys(l)): the first occurrence of every value, in order
RECURSIVE DedupeStable(_)
DedupeStable(l) ==
    IF l = <<>> THEN <<>>
    ELSE LET init == DedupeStable(SubSeq(l, 1, Len(l) - 1))
             last == l[Len(l)]
         IN IF last \in Range(init) THEN init ELSE Append(init, last)

\* sorted(cs)
RECURSIVE SortedCovs(_)
SortedCovs(cs) ==
    IF cs = <<>> THEN <<>>
    ELSE LET m == CHOOSE i \in DOMAIN cs :
                     /\ \A j \in DOMAIN cs : CovRank(cs[i]) <= CovRank(cs[j])
                     /\ \A j \in 1..(i - 1) : CovRank(cs[j]) # CovRank(cs[i])
         IN <<cs[m]>> \o SortedCovs(SubSeq(cs, 1, m - 1) \o SubSeq(cs, m + 1, Len(cs)))

\* itertools.combinations(base, r), in its order
RECURSIVE Combinations(_, _)
Combinations(base, r) ==
    IF r = 0 THEN <<<<>>>>
    ELSE IF Len(base) < r THEN <<>>
    ELSE LET withHead == Combinations(Tail(base), r - 1)
         IN [i \in DOMAIN withHead |-> <<Head(base)>> \o withHead[i]]
            \o Combinations(Tail(base), r)

\* lines 37-43: the combinations appended one by one, until the list has
\* max_models entries
RECURSIVE AddCombos(_, _, _)
AddCombos(cov_sets, combos, max_models) ==
    IF combos = <<>> THEN cov_sets
    ELSE LET nxt == Append(cov_sets, Head(combos))
         IN IF Len(nxt) >= max_models THEN nxt
            ELSE AddCombos(nxt, Tail(combos), max_models)

RECURSIVE CombosUpTo(_, _, _)
CombosUpTo(base, r, rmax) ==
    IF r > rmax THEN <<>>
    ELSE Combinations(base, r) \o CombosUpTo(base, r + 1, rmax)

\* the list without the combinations of lines 37-43
CovSetsNoCombos(base, max_models) ==
    <<<<>>, base>> \o
        [i \in DOMAIN base |-> SelectSeq(base, LAMBDA c : c # base[i])]

\* lines 34-43
CovSets(base, max_models) ==
    LET first == <<<<>>, base>> \o
                 [i \in DOMAIN base |-> SelectSeq(base, LAMBDA c : c # base[i])]
    IN IF Len(first) < max_models
       THEN AddCombos(first, CombosUpTo(base, 1, Min(3, Len(base))), max_models)
       ELSE first

\* the list with no entry dropped
UniqCovSetsNoDedup(cov_sets) == cov_sets

\* lines 45-52: the first entry of every key tuple(sorted(cs))
RECURSIVE UniqCovSets(_)
UniqCovSets(cov_sets) ==
    IF cov_sets = <<>> THEN <<>>
    ELSE LET init == UniqCovSets(SubSeq(cov_sets, 1, Len(cov_sets) - 1))
             cs == cov_sets[Len(cov_sets)]
         IN IF \E i \in 1..(Len(cov_sets) - 1) :
                   SortedCovs(cov_sets[i]) = SortedCovs(cs)
            THEN init ELSE Append(init, cs)

CsStart(base_covariates, max_models) ==
    [pc |-> "called", fn |-> "covariate_set_sensitivity",
     base_covariates |-> base_covariates, max_models |-> max_models,
     base |-> <<>>, todo |-> <<>>, i |-> 1, fits |-> 0, runs |-> <<>>]

\* lines 30-54: the covariate sets to fit, uniq_cov_sets[:max_models]
CsPlan ==
    /\ call.pc = "called" /\ call.fn = "covariate_set_sensitivity"
    /\ LET base == DedupeStable(call.base_covariates)
           uniq_cov_sets == UniqCovSets(CovSets(base, call.max_models))
       IN call' = [call EXCEPT !.pc = "loop", !.base = base,
                               !.todo = Take(uniq_cov_sets, call.max_models)]
    /\ UNCHANGED <<sc, sw, ds, cmp, agent>>

\* lines 54-65: one pass of the loop; an error of the DiD fit is not caught
CsRun ==
    /\ call.pc = "loop" /\ call.fn = "covariate_set_sensitivity"
    /\ call.i <= Len(call.todo)
    /\ \E fitFails \in BOOLEAN :
          IF fitFails
          THEN call' = [call EXCEPT !.pc = "raised", !.fits = @ + 1]
          ELSE call' = [call EXCEPT !.i = @ + 1, !.fits = @ + 1,
                           !.runs = Append(@, [covariates |-> call.todo[call.i],
                                               att |-> Est, p_value |-> Est])]
    /\ UNCHANGED <<sc, sw, ds, cmp, agent>>

\* line 66
CsReturn ==
    /\ call.pc = "loop" /\ call.fn = "covariate_set_sensitivity"
    /\ call.i > Len(call.todo)
    /\ call' = [call EXCEPT !.pc = "returned"]
    /\ UNCHANGED <<sc, sw, ds, cmp, agent>>

InitCs ==
    /\ call \in {CsStart(b, m) : b \in SeqsUpTo(CovNames, CsMaxCovs),
                                 m \in 0..CsMaxModels}
    /\ sc = Idle /\ sw = Idle /\ ds = Idle /\ cmp = Idle /\ agent = Idle

NextCs ==
    \/ CsPlan
    \/ CsRun
    \/ CsReturn

SpecCs == InitCs /\ [][NextCs]_vars

\* C16: for every base_covariates list, repeats or not, and every
\* max_models >= 0, at most max_models DiD fits are performed, no two runs
\* have the same set of covariates, and the covariates of every run are
\* among the base covariates.
C16_RunsCappedDistinctSubsets ==
    call.fn = "covariate_set_sensitivity" =>
        /\ call.fits <= call.max_models
        /\ \A i, j \in DOMAIN call.runs :
              i # j => Range(call.runs[i].covariates) # Range(call.runs[j].covariates)
        /\ \A i \in DOMAIN call.runs :
              Range(call.runs[i].covariates) \subseteq Range(call.base_covariates)

\* a returned sweep over a base list with a repeat: the combinations stop
\* at the cap of 5 entries, the repeated set is dropped, and 4 fits run
C16_Witness ==
    /\ call.fn = "covariate_set_sensitivity" /\ call.pc = "returned"
    /\ Len(call.base_covariates) > Len(call.base)
    /\ Len(call.base) = 2
    /\ call.max_models = 5
    /\ Len(CovSets(call.base, call.max_models)) = 5
    /\ call.fits = 4

(***************************************************************************)
(* Effects on the caller's frame and lists                                 *)
(*                                                                         *)
(* Python passes the frame and the lists by reference.  The heap holds     *)
(* every frame and list object; a local name is bound to an object id.     *)
(* Each function is the sequence of its statements that create, bind or    *)
(* change a frame or a list, or call another function of the core.         *)
(***************************************************************************)

\* bound on the number of items of a list that a loop runs over
FrMaxItems == 2

\* the names a function body binds: its parameters df, xs, ys (a frame and
\* up to two lists) and its locals; "none" is never bound (None)
FrVars == {"df", "xs", "ys", "d", "pre", "loc", "loc2", "loc3", "none"}

FrFrame(cols, rows) == [kind |-> "frame", cols |-> cols, rows |-> rows]

FrList(items) == [kind |-> "list", items |-> items]

\* statements
OpCopy(dst, src) == [op |-> "copy", dst |-> dst, src |-> src]

OpDerive(dst, src, how) == [op |-> "derive", dst |-> dst, src |-> src, how |-> how]

OpAliasOr(dst, src) == [op |-> "aliasor", dst |-> dst, src |-> src]

OpSetCol(obj, col, tag) == [op |-> "setcol", obj |-> obj, col |-> col, tag |-> tag]

OpNewList(dst) == [op |-> "newlist", dst |-> dst]

OpAppend(obj) == [op |-> "append", obj |-> obj]

OpSortList(obj) == [op |-> "sortlist", obj |-> obj]

OpFor(list, end) == [op |-> "for", list |-> list, end |-> end]

OpEndFor(start) == [op |-> "endfor", start |-> start]

OpCall(fn, df, xs, catch) ==
    [op |-> "call", fn |-> fn, df |-> df, xs |-> xs, catch |-> catch]

\* a branch: go on with the next statement, or with the one at `else`
OpIf(else) == [op |-> "if", else |-> else]

OpReturn == [op |-> "return"]

\* difference_in_differences with `d = df` in place of `d = df.copy()`
DidOpsNoCopy ==
    <<OpAliasOr("d", "df"),
      OpSetCol("d", "unit_col", "category"),
      OpSetCol("d", "time_col", "category"),
      OpSetCol("d", "_int", "int")>>

\* causal_plus.py:27-30
DidOps ==
    <<OpCopy("d", "df"),
      OpSetCol("d", "unit_col", "category"),
      OpSetCol("d", "time_col", "category"),
      OpSetCol("d", "_int", "int")>>

\* causal_plus.py:79-87 (one dummy column per offset; two offsets here)
EventStudyOps ==
    <<OpCopy("d", "df"),
      OpSetCol("d", "unit_col", "category"),
      OpSetCol("d", "time_col", "category"),
      OpSetCol("d", "k_m2", "int"),
      OpSetCol("d", "k_0", "int")>>

\* causal_plus.py:137-178: donors is donor_units itself when that is a
\* non-empty list; the result's donor_units is a new list
SyntheticControlOps ==
    <<OpCopy("d", "df"),
      OpSetCol("d", "time_col", "str"),
      OpAliasOr("loc", "xs"),
      OpCopy("loc2", "loc")>>

\* causal_estimators.py:32-43
ItsOps ==
    <<OpCopy("d", "df"),
      OpDerive("d", "d", "sort"),
      OpSetCol("d", "_t", "int"),
      OpSetCol("d", "_post", "int"),
      OpSetCol("d", "_t_post", "int"),
      OpCopy("loc", "xs")>>

\* causal_estimators.py:77-85
RddOps ==
    <<OpCopy("d", "df"),
      OpSetCol("d", "_r", "float"),
      OpDerive("d", "d", "filter"),
      OpSetCol("d", "_treat", "int"),
      OpSetCol("d", "_r_treat", "float"),
      OpCopy("loc", "xs")>>

\* did_diagnostics.py:33-55
ParallelTrendsOps ==
    <<OpCopy("d", "df"),
      OpSetCol("d", "time_col", "str"),
      OpDerive("pre", "d", "filter"),
      OpSetCol("pre", "_trend", "float"),
      OpSetCol("pre", "unit_col", "category"),
      OpSetCol("pre", "time_col", "category"),
      OpSetCol("pre", "_int", "float")>>

\* synth_opt.py:32-98: the copy, the short-pre-period fallback fit and
\* return, the scored candidates, one greedy step over the candidates
\* (donors = selected + [u] is a new list), the last fallback fit on a
\* slice of the candidates
DonorPoolSearchOps ==
    <<OpCopy("d", "df"),
      OpSetCol("d", "time_col", "str"),
      OpIf(6),
      OpCall("synthetic_control", "d", "none", FALSE),
      OpReturn,
      OpNewList("loc"),
      OpSortList("loc"),
      OpNewList("loc2"),
      OpFor("loc", 12),
      OpCopy("loc3", "loc2"),
      OpCall("synthetic_control", "d", "loc3", FALSE),
      OpEndFor(9),
      OpAppend("loc2"),
      OpIf(17),
      OpCopy("loc3", "loc"),
      OpCall("synthetic_control", "d", "loc3", FALSE)>>

\* sensitivity.py:30-65: base, the covariate sets (base itself is one of
\* them), one DiD fit per set, the runs
CovariateSetSensitivityOps ==
    <<OpNewList("loc2"),
      OpCopy("loc", "xs"),
      OpCall("difference_in_differences", "df", "loc", FALSE),
      OpAppend("loc2"),
      OpFor("loc", 8),
      OpCopy("loc3", "loc"),
      OpCall("difference_in_differences", "df", "loc3", FALSE),
      OpEndFor(5),
      OpAppend("loc2")>>

\* robustness.py:17-24 (xs: bandwidths, ys: x_cols)
RddBandwidthSensitivityOps ==
    <<OpNewList("loc"),
      OpFor("xs", 5),
      OpCall("regression_discontinuity", "df", "ys", TRUE),
      OpAppend("loc"),
      OpEndFor(2)>>

\* robustness.py:27-34 (xs: cutoffs)
PlaceboItsCutoffsOps ==
    <<OpNewList("loc"),
      OpFor("xs", 5),
      OpCall("interrupted_time_series", "df", "none", TRUE),
      OpAppend("loc"),
      OpEndFor(2)>>

\* robustness.py:45-53 (units is a new sorted list)
SyntheticControlPlacebosOps ==
    <<OpNewList("loc2"),
      OpSortList("loc2"),
      OpNewList("loc"),
      OpFor("loc2", 7),
      OpCall("synthetic_control", "df", "none", TRUE),
      OpAppend("loc"),
      OpEndFor(4)>>

FrFns ==
    {"difference_in_differences", "event_study", "synthetic_control",
     "interrupted_time_series", "regression_discontinuity",
     "parallel_trends_pretest", "donor_pool_search", "covariate_set_sensitivity",
     "rdd_bandwidth_sensitivity", "placebo_its_cutoffs", "synthetic_control_placebos"}

Ops(fn) ==
    CASE fn = "difference_in_differences" -> DidOps
      [] fn = "event_study" -> EventStudyOps
      [] fn = "synthetic_control" -> SyntheticControlOps
      [] fn = "interrupted_time_series" -> ItsOps
      [] fn = "regression_discontinuity" -> RddOps
      [] fn = "parallel_trends_pretest" -> ParallelTrendsOps
      [] fn = "donor_pool_search" -> DonorPoolSearchOps
      [] fn = "covariate_set_sensitivity" -> CovariateSetSensitivityOps
      [] fn = "rdd_bandwidth_sensitivity" -> RddBandwidthSensitivityOps
      [] fn = "placebo_its_cutoffs" -> PlaceboItsCutoffsOps
      [] OTHER -> SyntheticControlPlacebosOps

\* which list parameters a function has: "req" a required list, "opt" one
\* that may be None, "no" none
FrListParams(fn) ==
    CASE fn \in {"rdd_bandwidth_sensitivity"} -> [xs |-> "req", ys |-> "opt"]
      [] fn \in {"placebo_its_cutoffs", "covariate_set_sensitivity"} ->
            [xs |-> "req", ys |-> "no"]
      [] fn \in {"donor_pool_search", "synthetic_control_placebos"} ->
            [xs |-> "no", ys |-> "no"]
      [] OTHER -> [xs |-> "opt", ys |-> "no"]

\* the caller's objects: the frame (id 1) and two lists (ids 2 and 3)
FrInputFrames ==
    {FrFrame([c \in {"unit_col", "time_col", "y_col"} |-> "raw"], rows) :
        rows \in {<<1, 2>>, <<2, 1>>}}

FrInputLists == {FrList(items) : items \in SeqsUpTo({"a", "b"}, FrMaxItems)}

FrEnv(df, xs, ys) ==
    [v \in FrVars |-> IF v = "df" THEN df ELSE IF v = "xs" THEN xs
                      ELSE IF v = "ys" THEN ys ELSE 0]

FrActivation(fn, df, xs, ys) ==
    [fn |-> fn, ip |-> 1, env |-> FrEnv(df, xs, ys),
     it |-> [i \in DOMAIN Ops(fn) |-> 0]]

FrStart(fn, frame, l1, l2, xs, ys) ==
    [pc |-> "run", fn |-> fn, init |-> <<frame, l1, l2>>, heap |-> <<frame, l1, l2>>,
     stack |-> <<FrActivation(fn, 1, xs, ys)>>]

\* the running activation, its statement, and the stack with the running
\* activation replaced
FrTop == call.stack[Len(call.stack)]

FrOp == Ops(FrTop.fn)[FrTop.ip]

FrAt(kind) ==
    /\ call.pc = "run"
    /\ FrTop.ip <= Len(Ops(FrTop.fn))
    /\ FrOp.op = kind

FrWithTop(stack, top) == [stack EXCEPT ![Len(stack)] = top]

FrStep(top) == [top EXCEPT !.ip = @ + 1]

FrBind(top, var, id) == [top EXCEPT !.env[var] = id]

\* an exception leaves every activation up to the nearest one whose
\* running statement is a call inside try/except; that one goes on with
\* the statement after the call (the handler's append)
RECURSIVE FrUnwind(_)
FrUnwind(stack) ==
    IF stack = <<>> THEN <<>>
    ELSE LET top == stack[Len(stack)]
             op == Ops(top.fn)[top.ip]
         IN IF op.op = "call" /\ op.catch
            THEN FrWithTop(stack, FrStep(top))
            ELSE FrUnwind(SubSeq(stack, 1, Len(stack) - 1))

FrRaised(stack) ==
    LET rest == FrUnwind(SubSeq(stack, 1, Len(stack) - 1))
    IN IF rest = <<>> THEN [call EXCEPT !.pc = "raised", !.stack = <<>>]
       ELSE [call EXCEPT !.stack = rest]

\* df.copy(), list(x), [str(u) for u in x], selected + [u]: a new object
\* with the value of the source; `list(x_cols or [])` of None is a new
\* empty list
FrCopy ==
    /\ FrAt("copy")
    /\ LET src == FrTop.env[FrOp.src]
           value == IF src = 0 THEN FrList(<<>>) ELSE call.heap[src]
       IN call' = [call EXCEPT
                      !.heap = Append(@, value),
                      !.stack = FrWithTop(@, FrStep(FrBind(FrTop, FrOp.dst,
                                                           Len(call.heap) + 1)))]
    /\ UNCHANGED <<sc, sw, ds, cmp, agent>>

\* d.sort_values(...).reset_index(drop=True), d[mask].copy(): a new frame
\* with the rows of the source sorted, or some of them
FrDerive ==
    /\ FrAt("derive")
    /\ LET src == call.heap[FrTop.env[FrOp.src]]
           rows == IF FrOp.how = "sort" THEN SortedInts(Range(src.rows))
                   ELSE Take(src.rows, 1)
       IN call' = [call EXCEPT
                      !.heap = Append(@, FrFrame(src.cols, rows)),
                      !.stack = FrWithTop(@, FrStep(FrBind(FrTop, FrOp.dst,
                                                           Len(call.heap) + 1)))]
    /\ UNCHANGED <<sc, sw, ds, cmp, agent>>

\* `x = a or b`: the object a itself unless it is None or empty, and then
\* a new list
FrAliasOr ==
    /\ FrAt("aliasor")
    /\ LET src == FrTop.env[FrOp.src]
           falsy == src = 0 \/ (call.heap[src].kind = "list" /\ call.heap[src].items = <<>>)
       IN IF falsy
          THEN call' = [call EXCEPT
                           !.heap = Append(@, FrList(<<"u">>)),
                           !.stack = FrWithTop(@, FrStep(FrBind(FrTop, FrOp.dst,
                                                                Len(call.heap) + 1)))]
          ELSE call' = [call EXCEPT
                           !.stack = FrWithTop(@, FrStep(FrBind(FrTop, FrOp.dst, src)))]
    /\ UNCHANGED <<sc, sw, ds, cmp, agent>>

\* d[col] = ...: changes the object that the name is bound to
FrSetCol ==
    /\ FrAt("setcol")
    /\ LET id == FrTop.env[FrOp.obj]
       IN call' = [call EXCEPT
                      !.heap[id].cols = DictSet(@, FrOp.col, FrOp.tag),
                      !.stack = FrWithTop(@, FrStep(FrTop))]
    /\ UNCHANGED <<sc, sw, ds, cmp, agent>>

\* x = [], x = sorted(...), x = [... for ...]: a new list of up to
\* FrMaxItems items
FrNewList ==
    /\ FrAt("newlist")
    /\ \E items \in SeqsUpTo({"u"}, FrMaxItems) :
          call' = [call EXCEPT
                      !.heap = Append(@, FrList(items)),
                      !.stack = FrWithTop(@, FrStep(FrBind(FrTop, FrOp.dst,
                                                           Len(call.heap) + 1)))]
    /\ UNCHANGED <<sc, sw, ds, cmp, agent>>

\* x.append(...): changes the list that the name is bound to
FrAppend ==
    /\ FrAt("append")
    /\ LET id == FrTop.env[FrOp.obj]
       IN call' = [call EXCEPT
                      !.heap[id].items = Append(@, "r"),
                      !.stack = FrWithTop(@, FrStep(FrTop))]
    /\ UNCHANGED <<sc, sw, ds, cmp, agent>>

\* x.sort(...): in place
FrSortList ==
    /\ FrAt("sortlist")
    /\ LET id == FrTop.env[FrOp.obj]
       IN call' = [call EXCEPT
                      !.heap[id].items = [i \in DOMAIN @ |-> @[Len(@) + 1 - i]],
                      !.stack = FrWithTop(@, FrStep(FrTop))]
    /\ UNCHANGED <<sc, sw, ds, cmp, agent>>

\* for x in list: the next item, or past the loop after the last one;
\* iterating over None raises TypeError
FrFor ==
    /\ FrAt("for")
    /\ LET id == FrTop.env[FrOp.list]
       IN IF id = 0
          THEN call' = FrRaised(call.stack)
          ELSE IF FrTop.it[FrTop.ip] < Len(call.heap[id].items)
          THEN call' = [call EXCEPT !.stack = FrWithTop(@,
                           FrStep([FrTop EXCEPT !.it[FrTop.ip] = @ + 1]))]
          ELSE call' = [call EXCEPT !.stack = FrWithTop(@,
                           [FrTop EXCEPT !.it[FrTop.ip] = 0, !.ip = FrOp.end + 1])]
    /\ UNCHANGED <<sc, sw, ds, cmp, agent>>

FrEndFor ==
    /\ FrAt("endfor")
    /\ call' = [call EXCEPT !.stack = FrWithTop(@, [FrTop EXCEPT !.ip = FrOp.start])]
    /\ UNCHANGED <<sc, sw, ds, cmp, agent>>

\* a branch on the data: either way
FrIf ==
    /\ FrAt("if")
    /\ \E taken \in BOOLEAN :
          call' = [call EXCEPT !.stack = FrWithTop(@,
                      IF taken THEN FrStep(FrTop) ELSE [FrTop EXCEPT !.ip = FrOp.else])]
    /\ UNCHANGED <<sc, sw, ds, cmp, agent>>

\* a call of another function of the core: the callee's df and list
\* parameter are bound to the caller's objects
FrCall ==
    /\ FrAt("call")
    /\ call' = [call EXCEPT !.stack = Append(@,
                   FrActivation(FrOp.fn, FrTop.env[FrOp.df], FrTop.env[FrOp.xs], 0))]
    /\ UNCHANGED <<sc, sw, ds, cmp, agent>>

\* return, or the end of the body
FrReturn ==
    /\ call.pc = "run"
    /\ \/ FrTop.ip > Len(Ops(FrTop.fn))
       \/ FrAt("return")
    /\ IF Len(call.stack) = 1
       THEN call' = [call EXCEPT !.pc = "returned", !.stack = <<>>]
       ELSE LET rest == SubSeq(call.stack, 1, Len(call.stack) - 1)
            IN call' = [call EXCEPT !.stack = FrWithTop(rest, FrStep(rest[Len(rest)]))]
    /\ UNCHANGED <<sc, sw, ds, cmp, agent>>

\* the running statement raises
FrRaise ==
    /\ call.pc = "run"
    /\ call' = FrRaised(call.stack)
    /\ UNCHANGED <<sc, sw, ds, cmp, agent>>

InitFrames ==
    /\ call \in {FrStart(fn, frame, l1, FrList(<<"x1">>), xs, ys) :
                    fn \in FrFns, frame \in FrInputFrames, l1 \in FrInputLists,
                    xs \in {0, 2}, ys \in {0, 3}}
    /\ \/ FrListParams(call.fn).xs = "opt"
       \/ FrListParams(call.fn).xs = "req" /\ FrTop.env["xs"] = 2
       \/ FrListParams(call.fn).xs = "no" /\ FrTop.env["xs"] = 0
    /\ \/ FrListParams(call.fn).ys = "opt"
       \/ FrListParams(call.fn).ys = "no" /\ FrTop.env["ys"] = 0
    /\ sc = Idle /\ sw = Idle /\ ds = Idle /\ cmp = Idle /\ agent = Idle

NextFrames ==
    \/ FrCopy
    \/ FrDerive
    \/ FrAliasOr
    \/ FrSetCol
    \/ FrNewList
    \/ FrAppend
    \/ FrSortList
    \/ FrFor
    \/ FrEndFor
    \/ FrIf
    \/ FrCall
    \/ FrReturn
    \/ FrRaise

SpecFrames == InitFrames /\ [][NextFrames]_vars

\* C17: at every point of a call of an estimator, diagnostic, sweep or
\* search, and after it returned or raised, the caller's frame and lists
\* hold the rows, columns and values they held before the call.
C17_CallerInputsUnchanged ==
    call.pc # "idle" =>
        \A id \in DOMAIN call.init : call.heap[id] = call.init[id]

\* a donor search that returned after its greedy fits: the frames that
\* were changed are copies
C17_Witness ==
    /\ call.pc = "returned" /\ call.fn = "donor_pool_search"
    /\ Len(call.heap) >= 10
    /\ \E id \in DOMAIN call.heap :
          /\ call.heap[id].kind = "frame"
          /\ call.heap[id].cols["time_col"] = "str"
    /\ call.heap[1].cols["time_col"] = "raw"

(***************************************************************************)
(* difference_in_differences called directly                               *)
(* (models/causal_plus.py:13-47)                                           *)
(***************************************************************************)

\* bounds of the panel: units and periods
DidMaxUnits == 2

DidMaxPeriod == 2

DidUnits == {u \in Range(UnitOrder) : UnitRank(u) <= DidMaxUnits}

DidPeriods == 1..DidMaxPeriod

\* a panel: its rows <<unit, period>>, the treated flag of each unit and
\* the post flag of each period
DidInputs ==
    [rows : (SUBSET (DidUnits \X DidPeriods)) \ {{}},
     treated : [DidUnits -> {0, 1}],
     post : [DidPeriods -> {0, 1}]]

DidStart(in) ==
    [pc |-> "called", fn |-> "difference_in_differences", rows |-> in.rows,
     treated |-> in.treated, post |-> in.post, design |-> <<>>]

\* C(col): one dummy per level of the column, the first level (in sorted
\* order) left out as the reference
UnitDummies(rows) ==
    LET levels == SortedUnits({r[1] : r \in rows})
    IN [i \in 1..(Len(levels) - 1) |->
           [name |-> <<"C(unit)", levels[i + 1]>>,
            col |-> [r \in rows |-> IF r[1] = levels[i + 1] THEN 1 ELSE 0]]]

TimeDummies(rows) ==
    LET levels == SortedInts({r[2] : r \in rows})
    IN [i \in 1..(Len(levels) - 1) |->
           [name |-> <<"C(time)", levels[i + 1]>>,
            col |-> [r \in rows |-> IF r[2] = levels[i + 1] THEN 1 ELSE 0]]]

\* lines 27-38: the design matrix of
\* y ~ treated + post + _int + C(unit) + C(time), one column per term
DidDesignMatrix(c) ==
    <<[name |-> <<"Intercept", 0>>, col |-> [r \in c.rows |-> 1]]>>
    \o UnitDummies(c.rows) \o TimeDummies(c.rows) \o
    <<[name |-> <<"treated", 0>>, col |-> [r \in c.rows |-> c.treated[r[1]]]],
      [name |-> <<"post", 0>>, col |-> [r \in c.rows |-> c.post[r[2]]]],
      [name |-> <<"_int", 0>>,
       col |-> [r \in c.rows |-> c.treated[r[1]] * c.post[r[2]]]]>>

\* lines 27-36: the copy, the _int column, the formula
DidDesign ==
    /\ call.pc = "called" /\ call.fn = "difference_in_differences"
    /\ call' = [call EXCEPT !.pc = "design", !.design = DidDesignMatrix(call)]
    /\ UNCHANGED <<sc, sw, ds, cmp, agent>>

\* lines 38-47: the fit (least squares by pseudo-inverse: the rank of the
\* design is not looked at) and the result.  fitFails: the regression
\* backbone raises (a missing column, non-numeric data).
DidFit ==
    /\ call.pc = "design" /\ call.fn = "difference_in_differences"
    /\ \E fitFails \in BOOLEAN :
          IF fitFails
          THEN call' = [call EXCEPT !.pc = "raised"]
          ELSE LET idx == IndexOf([i \in DOMAIN call.design |-> call.design[i].name],
                                  <<"_int", 0>>)
               IN call' = [pc |-> "returned", fn |-> call.fn, rows |-> call.rows,
                           treated |-> call.treated, post |-> call.post,
                           design |-> call.design,
                           result |-> [att |-> <<"params", idx>>,
                                       p_value |-> <<"pvalues", idx>>,
                                       model_summary |-> [n |-> Cardinality(call.rows),
                                                          r2 |-> Est]]]
    /\ UNCHANGED <<sc, sw, ds, cmp, agent>>

InitDid ==
    /\ call \in {DidStart(in) : in \in DidInputs}
    /\ sc = Idle /\ sw = Idle /\ ds = Idle /\ cmp = Idle /\ agent = Idle

NextDid ==
    \/ DidDesign
    \/ DidFit

SpecDid == InitDid /\ [][NextDid]_vars

\* a linear dependence among the columns of a design with coefficients
\* -1, 0, 1 (enough for columns of dummies and flags)
PerfectlyCollinear(design, rows) ==
    \E coef \in [DOMAIN design -> {-1, 0, 1}] :
        /\ \E j \in DOMAIN design : coef[j] # 0
        /\ \A r \in rows :
              SumSeq([j \in DOMAIN design |-> coef[j] * design[j].col[r]]) = 0

JtMaxPre == 3

\* k_pre_max = -2, the default
KPreMax == -2

\* p-values in thousandths: 0, 0.1, 1
JtPVals == {0, 100, 1000}

\* a dict is the sequence of its <<key, value>> items in insertion order
Dicts(keys, vals) ==
    {d \in SeqsUpTo(keys \X vals, Cardinality(keys)) :
        \A i, j \in DOMAIN d : i # j => d[i][1] # d[j][1]}

DictKeys(d) == [i \in DOMAIN d |-> d[i][1]]

\* the same items inserted in another order
Reorderings(d) ==
    {[i \in DOMAIN d |-> d[perm[i]]] :
        perm \in {f \in [DOMAIN d -> DOMAIN d] :
                     \A i, j \in DOMAIN d : i # j => f[i] # f[j]}}

\* np.log(max(1e-12, min(1.0, p))) in thousandths: ln(1e-12) = -27.631,
\* ln(0.1) = -2.303, ln(1) = 0
LogClamped(p) ==
    IF p <= 0 THEN -27631
    ELSE IF p >= 1000 THEN 0
    ELSE -2303

\* a float keeps a fixed number of digits: here, values of magnitude
\* 10000 or more are rounded to a multiple of 100
FRound(x) == IF Abs(x) >= 10000 THEN (x \div 100) * 100 ELSE x

\* np.sum: the items added in order, every partial sum rounded
RECURSIVE FSum(_)
FSum(l) ==
    IF l = <<>> THEN 0
    ELSE FRound(FSum(SubSeq(l, 1, Len(l) - 1)) + l[Len(l)])

\* every key, whatever k_pre_max
KsPreAll(coef_by_k, k_pre_max) == SortedInts(Range(DictKeys(coef_by_k)))

\* the selected keys in insertion order, not sorted
KsPreUnsorted(coef_by_k, k_pre_max) ==
    SelectSeq(DictKeys(coef_by_k), LAMBDA k : k <= k_pre_max)

\* line 86: ks = sorted([k for k in coef_by_k.keys() if k <= k_pre_max])
KsPre(coef_by_k, k_pre_max) ==
    SortedInts(Range(SelectSeq(DictKeys(coef_by_k), LAMBDA k : k <= k_pre_max)))

\* lines 86-94.  p_by_k[k] of a missing key raises KeyError.
JointTest(coef_by_k, p_by_k, k_pre_max) ==
    LET ks == KsPre(coef_by_k, k_pre_max)
        missing == {i \in DOMAIN ks : ks[i] \notin Range(DictKeys(p_by_k))}
        value(k) == p_by_k[CHOOSE i \in DOMAIN p_by_k : p_by_k[i][1] = k][2]
        ps == [i \in DOMAIN ks |-> value(ks[i])]
        stat == (0 - 2) * FSum([i \in DOMAIN ps |-> LogClamped(ps[i])])
    IN IF ks = <<>>
       THEN [raised |-> TRUE,
             error |-> "No pre-period coefficients available for joint test."]
       ELSE IF missing # {}
       THEN [raised |-> TRUE, error |-> "KeyError"]
       ELSE [raised |-> FALSE, k_values |-> ks, f_stat |-> stat,
             \* 1 - chi2.cdf(stat, df): a function of the two
             p_value |-> <<stat, 2 * Len(ps)>>,
             df_num |-> 2 * Len(ps)]

JtStart(coef_by_k, p_by_k) ==
    [pc |-> "called", fn |-> "event_study_preperiod_joint_test",
     coef_by_k |-> coef_by_k, p_by_k |-> p_by_k,
     first |-> None, second |-> None]

\* a call
JtFirstCall ==
    /\ call.pc = "called" /\ call.fn = "event_study_preperiod_joint_test"
    /\ call' = [call EXCEPT !.pc = "once",
                   !.first = Some(JointTest(call.coef_by_k, call.p_by_k, KPreMax))]
    /\ UNCHANGED <<sc, sw, ds, cmp, agent>>

\* a later call with the same two mappings, their items inserted in any
\* order
JtSecondCall ==
    /\ call.pc = "once" /\ call.fn = "event_study_preperiod_joint_test"
    /\ \E c2 \in Reorderings(call.coef_by_k), p2 \in Reorderings(call.p_by_k) :
          call' = [call EXCEPT !.pc = "twice", !.coef_by_k = c2, !.p_by_k = p2,
                      !.second = Some(JointTest(c2, p2, KPreMax))]
    /\ UNCHANGED <<sc, sw, ds, cmp, agent>>

\* the two mappings as event_study builds them: the same keys
InitJt ==
    /\ call \in {JtStart([i \in DOMAIN p |-> <<p[i][1], Est>>], p) :
                    p \in Dicts((0 - JtMaxPre)..(0 - 1), JtPVals)}
    /\ sc = Idle /\ sw = Idle /\ ds = Idle /\ cmp = Idle /\ agent = Idle

NextJt ==
    \/ JtFirstCall
    \/ JtSecondCall

SpecJt == InitJt /\ [][NextJt]_vars

\* C19: two calls with the same offset-to-coefficient and offset-to-p-value
\* mappings, whatever the insertion order of the mappings, both raise or
\* both return, and then with the same statistic and the same p-value.
C19_JointTestDeterministic ==
    (call.fn = "event_study_preperiod_joint_test" /\ call.pc = "twice") =>
        LET a == The(call.first)
            b == The(call.second)
        IN /\ a.raised = b.raised
           /\ ~ a.raised => /\ a.f_stat = b.f_stat
                            /\ a.p_value = b.p_value
                            /\ a.k_values = b.k_values

\* two calls that combined two p-values whose logarithms add up to
\* different floats in the two insertion orders
C19_Witness ==
    /\ call.fn = "event_study_preperiod_joint_test" /\ call.pc = "twice"
    /\ ~ The(call.second).raised
    /\ Len(The(call.second).k_values) = 2
    /\ DictKeys(call.p_by_k) # The(call.second).k_values
    /\ LET unsorted == KsPreUnsorted(call.p_by_k, KPreMax)
           value(k) == call.p_by_k[CHOOSE i \in DOMAIN call.p_by_k :
                                      call.p_by_k[i][1] = k][2]
       IN (0 - 2) * FSum([i \in DOMAIN unsorted |-> LogClamped(value(unsorted[i]))])
             # The(call.second).f_stat

(***************************************************************************)
(* The trial log of donor_pool_search  (models/synth_opt.py:62-93)         *)
(***************************************************************************)

\* one step of the search from record d to record d2
DsNextOn(d, d2) ==
    \/ DsFallbackOn(d, d2)
    \/ DsScoreOn(d, d2)
    \/ DsTrialOn(d, d2)
    \/ DsStepEndOn(d, d2)
    \/ DsFinishOn(d, d2)

IsPrefix(a, b) == Len(a) <= Len(b) /\ SubSeq(b, 1, Len(a)) = a

\* the candidates a record is due for in greedy step s: the top-K
\* candidates not selected in the steps before s, in candidate order
DueInStep(d, s) ==
    SelectSeq(d.candidates, LAMBDA u : u \notin Range(SubSeq(d.selected, 1, s - 1)))

\* the candidates of the records of step s, in log order
LoggedInStep(d, s) ==
    LET recs == SelectSeq(d.tried, LAMBDA r : r.step = s)
    IN [i \in DOMAIN recs |-> recs[i].candidate_added]

\* the log of a greedy search: steps numbered from 1 and never decreasing,
\* donors_n the step number, one record per due candidate in every step
\* that ran to its end, and the records so far of the running step
LogInStepOrder(d) ==
    (d.pc \in {"trial", "finish", "done", "raised"}
        /\ \A i \in DOMAIN d.tried : IsTrialRecord(d.tried[i])) =>
        /\ \A i \in DOMAIN d.tried :
              /\ d.tried[i].step >= 1
              /\ d.tried[i].step <= Len(d.selected) + 1
              /\ d.tried[i].donors_n = d.tried[i].step
        /\ d.tried # <<>> => d.tried[1].step = 1
        /\ \A i, j \in DOMAIN d.tried : i < j => d.tried[i].step <= d.tried[j].step
        /\ \A s \in 1..Len(d.selected) : LoggedInStep(d, s) = DueInStep(d, s)
        /\ IsPrefix(LoggedInStep(d, Len(d.selected) + 1),
                    DueInStep(d, Len(d.selected) + 1))
        /\ d.pc \in {"finish", "done"} =>
              LoggedInStep(d, Len(d.selected) + 1) = <<>>

\* the search record with an empty log, and the successor with only the
\* records that the step appended
LogErased(d) == [d EXCEPT !.tried = <<>>]

LogAppended(d, d2) ==
    [d2 EXCEPT !.tried = SubSeq(d2.tried, Len(d.tried) + 1, Len(d2.tried))]

\* C20: in every step of donor_pool_search the trial log only grows (the
\* records already in it stay as they are), the records are in step order
\* (steps from 1, never decreasing, donors_n the step number), every
\* greedy step that ran has one record for each top-K candidate not yet
\* selected and none for a selected one, and the step taken is the step
\* the search takes from the same state with an empty log: no decision
\* reads the log.
C20_TrialLogAppendOnly ==
    [][/\ IsPrefix(ds.tried, ds'.tried)
       /\ LogInStepOrder(ds')
       /\ DsNextOn(LogErased(ds), LogAppended(ds, ds'))]_vars

\* a search that returned after three greedy steps over three candidates:
\* three records in step 1, two in step 2, one in step 3
C20_Witness ==
    /\ ds.pc = "done"
    /\ Len(ds.selected) = 3
    /\ Len(ds.tried) = 6
    /\ Len(LoggedInStep(ds, 1)) = 3
    /\ Len(LoggedInStep(ds, 2)) = 2
    /\ Len(LoggedInStep(ds, 3)) = 1
    /\ ds.tried[6].donors_n = 3

(***************************************************************************)
(* The greedy choice of donor_pool_search  (models/synth_opt.py:69-90)     *)
(***************************************************************************)

\* the records of greedy step s in the trial log
StepRecords(d, s) ==
    {d.tried[i] : i \in {k \in DOMAIN d.tried :
                            IsTrialRecord(d.tried[k]) /\ d.tried[k].step = s}}

\* record r is a best trial of its step: no trial of the step has a lower
\* pre_rmse, and none of the same pre_rmse has a higher correlation
IsBestOfStep(d, r) ==
    \A q \in StepRecords(d, r.step) :
        /\ r.pre_rmse <= q.pre_rmse
        /\ q.pre_rmse = r.pre_rmse =>
              d.in.corr[r.candidate_added] >= d.in.corr[q.candidate_added]

\* C21: whenever the selected donor list changes, it grows by exactly one
\* donor that was not selected before, and that donor is the candidate of a
\* trial of the step just run whose pre_rmse is the lowest of the step's
\* trials (of the highest correlation among the trials of that pre_rmse).
C21_GreedyStepAddsBest ==
    [][(ds.pc # "idle" /\ ds'.selected # ds.selected) =>
          \E r \in StepRecords(ds, Len(ds.selected) + 1) :
             /\ ds'.selected = Append(ds.selected, r.candidate_added)
             /\ r.candidate_added \notin Range(ds.selected)
             /\ IsBestOfStep(ds, r)]_vars

\* a search that returned after two greedy steps, the first of which had
\* two trials of the same lowest pre_rmse whose candidates differ in
\* correlation; the first selected donor is the one of higher correlation
C21_Witness ==
    /\ ds.pc = "done"
    /\ Len(ds.selected) >= 2
    /\ \E r, q \in StepRecords(ds, 1) :
          /\ r.candidate_added = ds.selected[1]
          /\ q.pre_rmse = r.pre_rmse
          /\ ds.in.corr[r.candidate_added] > ds.in.corr[q.candidate_added]
    /\ Cardinality(StepRecords(ds, 2)) >= 2

(***************************************************************************)
(* The aligned series of synthetic_control                                 *)
(* (models/causal_plus.py:142-152, 167-171)                                *)
(***************************************************************************)

\* the values the fit reads for unit u over the period axis: the pre-period
\* series of lines 151-152 followed by the post-period series of lines
\* 168-169, each one a call of _series of its own
AlignedSeries(s, u) ==
    Series(s.df, u, PreTimes(s.df, s.intervention_time))
        \o Series(s.df, u, PostTimes(s.df, s.intervention_time))

Observed(df, u, t) == u \in DOMAIN df /\ t \in DOMAIN df[u] /\ df[u][t] # NA

\* the most recent observed value of unit u before period t, 0 when the
\* unit has no observation before t
LastObservedBefore(df, u, t) ==
    LET earlier == {x \in 1..(t - 1) : Observed(df, u, x)}
    IN IF earlier = {} THEN 0
       ELSE df[u][CHOOSE x \in earlier : \A y \in earlier : y <= x]

\* C22: for every unit of the fit (treated or donor) and every period of
\* the period axis, before or after the intervention, at which the unit has
\* no observation, the aligned value is the unit's most recent earlier
\* observed value, and 0 only when there is none.
C22_MissingIsForwardFilled ==
    sc.pc = "returned" =>
        LET all_times == AllTimes(sc.df)
        IN \A u \in Range(sc.donors) \cup {sc.treated_unit} :
              \A i \in DOMAIN all_times :
                 ~Observed(sc.df, u, all_times[i]) =>
                    AlignedSeries(sc, u)[i]
                        = LastObservedBefore(sc.df, u, all_times[i])

(***************************************************************************)
(* interrupted_time_series called directly                                 *)
(* (models/causal_estimators.py:15-57)                                     *)
(*                                                                         *)
(* A period column holds labels of one type: strings or integers.  A       *)
(* string is the sequence of its characters, here decimal digits; an       *)
(* integer is itself.  Python orders strings character by character and    *)
(* integers by value.                                                      *)
(***************************************************************************)

\* bound on the rows of the series
ItsMaxRows == 3

\* the numbers the period labels are drawn from
ItsLabelVals == {2, 9, 10}

\* str(n) of a non-negative integer: its decimal digits
RECURSIVE Decimal(_)
Decimal(n) == IF n < 10 THEN <<n>> ELSE Append(Decimal(n \div 10), n % 10)

\* a label of type ty written from the number n
Label(ty, n) == [ty |-> ty, val |-> IF ty = "str" THEN Decimal(n) ELSE n]

\* str(x): a string is left as it is, an integer becomes its digits
PyStr(x) == IF x.ty = "str" THEN x.val ELSE Decimal(x.val)

\* a <= b for two strings
RECURSIVE StrLe(_, _)
StrLe(a, b) ==
    IF a = <<>> THEN TRUE
    ELSE IF b = <<>> THEN FALSE
    ELSE IF Head(a) # Head(b) THEN Head(a) < Head(b)
    ELSE StrLe(Tail(a), Tail(b))

\* a <= b for two labels of one type, as Python compares them
LabelLe(a, b) == IF a.ty = "str" THEN StrLe(a.val, b.val) ELSE a.val <= b.val

\* sort_values(time_col): the labels in ascending order of their own type
RECURSIVE SortLabels(_)
SortLabels(col) ==
    IF col = <<>> THEN <<>>
    ELSE LET i == CHOOSE j \in DOMAIN col : \A k \in DOMAIN col : LabelLe(col[j], col[k])
             rest == [n \in 1..(Len(col) - 1) |-> IF n < i THEN col[n] ELSE col[n + 1]]
         IN <<col[i]>> \o SortLabels(rest)

ItsInputs ==
    [col : UNION {{[i \in DOMAIN s |-> Label(ty, s[i])] :
                      s \in SeqsUpTo(ItsLabelVals, ItsMaxRows)} : ty \in {"str", "int"}},
     intervention_time : {Label(ty, n) : ty \in {"str", "int"},
                                         n \in ItsLabelVals \cup {11}}]

ItsStart(in) ==
    [pc |-> "called", fn |-> "interrupted_time_series", col |-> in.col,
     intervention_time |-> in.intervention_time,
     d |-> <<>>, _t |-> <<>>, tmask |-> <<>>, t0 |-> 0,
     _post |-> <<>>, _t_post |-> <<>>]

\* lines 32-36: the rows sorted by period, the running index, the mask of
\* the rows at or after the intervention time (compared as strings), and
\* the error when the mask is empty
ItsPrepare ==
    /\ call.pc = "called" /\ call.fn = "interrupted_time_series"
    /\ LET d == SortLabels(call.col)
           tmask == [i \in DOMAIN d |->
                        StrLe(PyStr(call.intervention_time), PyStr(d[i]))]
       IN IF \E i \in DOMAIN tmask : tmask[i]
          THEN call' = [call EXCEPT !.pc = "masked", !.d = d,
                            !._t = [i \in DOMAIN d |-> i - 1], !.tmask = tmask]
          ELSE call' = [call EXCEPT !.pc = "raised", !.d = d,
                            !._t = [i \in DOMAIN d |-> i - 1], !.tmask = tmask]
    /\ UNCHANGED <<sc, sw, ds, cmp, agent>>

\* lines 37-40: t0 is the first index of the mask, _post and _t_post are
\* computed from the running index
ItsDesign ==
    /\ call.pc = "masked" /\ call.fn = "interrupted_time_series"
    /\ LET first == CHOOSE i \in DOMAIN call.tmask :
                        /\ call.tmask[i]
                        /\ \A k \in DOMAIN call.tmask : call.tmask[k] => i <= k
           t0 == first - 1
           post == [i \in DOMAIN call.d |-> IF call._t[i] >= t0 THEN 1 ELSE 0]
       IN call' = [call EXCEPT !.pc = "design", !.t0 = t0, !._post = post,
                        !._t_post = [i \in DOMAIN call.d |->
                                        (call._t[i] - t0) * post[i]]]
    /\ UNCHANGED <<sc, sw, ds, cmp, agent>>

\* lines 42-57: the fit and the result.  fitFails: the regression raises.
ItsFit ==
    /\ call.pc = "design" /\ call.fn = "interrupted_time_series"
    /\ \E fitFails \in BOOLEAN :
          call' = [call EXCEPT !.pc = IF fitFails THEN "raised" ELSE "returned"]
    /\ UNCHANGED <<sc, sw, ds, cmp, agent>>

InitIts ==
    /\ call \in {ItsStart(in) : in \in ItsInputs}
    /\ sc = Idle /\ sw = Idle /\ ds = Idle /\ cmp = Idle /\ agent = Idle

NextIts ==
    \/ ItsPrepare
    \/ ItsDesign
    \/ ItsFit

SpecIts == InitIts /\ [][NextIts]_vars

\* int(s) of a string of digits
RECURSIVE ParseInt(_)
ParseInt(s) ==
    IF s = <<>> THEN 0 ELSE 10 * ParseInt(SubSeq(s, 1, Len(s) - 1)) + s[Len(s)]

\* period p is at or after the intervention time it, in the order of the
\* period column: by value for integer periods, as strings for strings
AtOrAfter(p, it) ==
    IF p.ty = "int" THEN p.val >= ParseInt(PyStr(it))
    ELSE StrLe(PyStr(it), p.val)

\* C23: once the design of interrupted_time_series is built, the rows are
\* in period order, the trend of the i-th row is i from 0, t0 is the least
\* index whose period is at or after intervention_time, post is 1 exactly
\* on the rows whose period is at or after intervention_time, and the
\* slope regressor is trend - t0 on post rows and 0 elsewhere.
C23_ItsDesign ==
    (call.fn = "interrupted_time_series" /\ call.pc \in {"design", "returned"}) =>
        LET n == Len(call.d)
            after == {i \in 1..n : AtOrAfter(call.d[i], call.intervention_time)}
        IN /\ \A i, j \in 1..n : i < j => LabelLe(call.d[i], call.d[j])
           /\ \A i \in 1..n : call._t[i] = i - 1
           /\ after # {}
           /\ \A i \in after : call.t0 <= i - 1
           /\ call.t0 + 1 \in after
           /\ \A i \in 1..n : call._post[i] = (IF i \in after THEN 1 ELSE 0)
           /\ \A i \in 1..n :
                 call._t_post[i] = (IF i \in after THEN call._t[i] - call.t0 ELSE 0)

(***************************************************************************)
(* The curated family of covariate_set_sensitivity                         *)
(* (models/sensitivity.py:31-54)                                           *)
(***************************************************************************)

\* the distinct sets of a list of sets, each at its first place
RECURSIVE FirstOfEach(_)
FirstOfEach(sets) ==
    IF sets = <<>> THEN <<>>
    ELSE LET init == FirstOfEach(SubSeq(sets, 1, Len(sets) - 1))
             last == sets[Len(sets)]
         IN IF last \in Range(init) THEN init ELSE Append(init, last)

\* the curated family over the base covariates, as sets, in the order:
\* the empty set, the full set, the full set less one covariate, every
\* combination of 1, then 2, then 3 covariates
CuratedFamily(base) ==
    LET combos == CombosUpTo(base, 1, 3)
    IN FirstOfEach(<<{}, Range(base)>>
                   \o [i \in DOMAIN base |-> Range(base) \ {base[i]}]
                   \o [i \in DOMAIN combos |-> Range(combos[i])])

\* C24: a returned covariate_set_sensitivity has run every set of the
\* curated family exactly once when the family has at most max_models
\* distinct sets, and otherwise the first max_models distinct sets of the
\* family in its order.
C24_RunsAreTheCuratedFamily ==
    (call.fn = "covariate_set_sensitivity" /\ call.pc = "returned") =>
        LET family == CuratedFamily(call.base)
            ran == [i \in DOMAIN call.runs |-> Range(call.runs[i].covariates)]
        IN /\ Len(family) <= call.max_models => ran = family
           /\ Len(family) > call.max_models => ran = Take(family, call.max_models)

\* a returned sweep over three base covariates with max_models = 8: the
\* family of 8 sets is run whole, the three single covariates last
C24_Witness ==
    /\ call.fn = "covariate_set_sensitivity" /\ call.pc = "returned"
    /\ Len(call.base) = 3
    /\ call.max_models = 8
    /\ Len(CuratedFamily(call.base)) = 8
    /\ Len(call.runs) = 8
    /\ Len(call.runs[8].covariates) = 1

(***************************************************************************)
(* The offsets event_study_preperiod_joint_test combines                   *)
(* (models/did_diagnostics.py:86-94)                                       *)
(***************************************************************************)

\* the offsets of the mappings: -JtMaxPre..0
JtKeys == (0 - JtMaxPre)..0

\* the dict whose items are those of the function f, keys ascending
ItemsOf(f) ==
    LET ks == SortedInts(DOMAIN f)
    IN [i \in DOMAIN ks |-> <<ks[i], f[ks[i]]>>]

\* del d[k], and d[k] = v
DictDrop(d, k) == SelectSeq(d, LAMBDA it : it[1] # k)

DictPut(d, k, v) ==
    IF k \in Range(DictKeys(d))
    THEN [i \in DOMAIN d |-> IF d[i][1] = k THEN <<k, v>> ELSE d[i]]
    ELSE Append(d, <<k, v>>)

\* the mappings of a call: p_by_k any mapping over the offsets, coef_by_k
\* over the same offsets but for at most one (odd), which only one of the
\* two mappings has
JtCutInputs ==
    {[coef_by_k |-> ItemsOf([k \in (IF odd \in DOMAIN pf
                                    THEN DOMAIN pf \ {odd}
                                    ELSE (DOMAIN pf \cup {odd}) \cap JtKeys) |-> Est]),
      p_by_k |-> ItemsOf(pf),
      k_pre_max |-> kpm] :
        pf \in UNION {[S -> JtPVals] : S \in SUBSET JtKeys},
        odd \in JtKeys \cup {1},
        kpm \in (0 - JtMaxPre - 1)..0}

JtCutStart(in) ==
    [pc |-> "start", fn |-> "event_study_preperiod_joint_test",
     coef_by_k |-> in.coef_by_k, p_by_k |-> in.p_by_k, k_pre_max |-> in.k_pre_max,
     before |-> None, first |-> None, second |-> None]

\* a call with a k_pre_max of the caller's
JtCutCall ==
    /\ call.pc = "start" /\ call.fn = "event_study_preperiod_joint_test"
    /\ call' = [call EXCEPT !.pc = "first",
                   !.first = Some(JointTest(call.coef_by_k, call.p_by_k,
                                            call.k_pre_max))]
    /\ UNCHANGED <<sc, sw, ds, cmp, agent>>

\* a later call with the same k_pre_max after the caller changed one
\* offset above k_pre_max: removed it from both mappings, or set its
\* coefficient and p-value
JtCutCallAgain ==
    /\ call.pc = "first" /\ call.fn = "event_study_preperiod_joint_test"
    /\ \E k \in {x \in JtKeys : x > call.k_pre_max} :
          \E c2 \in {DictDrop(call.coef_by_k, k), DictPut(call.coef_by_k, k, Est)},
             p2 \in {DictDrop(call.p_by_k, k)}
                       \cup {DictPut(call.p_by_k, k, v) : v \in JtPVals} :
             call' = [call EXCEPT !.pc = "second",
                         !.before = Some([coef_by_k |-> call.coef_by_k,
                                          p_by_k |-> call.p_by_k]),
                         !.coef_by_k = c2, !.p_by_k = p2,
                         !.second = Some(JointTest(c2, p2, call.k_pre_max))]
    /\ UNCHANGED <<sc, sw, ds, cmp, agent>>

InitJtCut ==
    /\ call \in {JtCutStart(in) : in \in JtCutInputs}
    /\ sc = Idle /\ sw = Idle /\ ds = Idle /\ cmp = Idle /\ agent = Idle

NextJtCut ==
    \/ JtCutCall
    \/ JtCutCallAgain

SpecJtCut == InitJtCut /\ [][NextJtCut]_vars

\* the value of key k in a dict that has it
DictGet(d, k) == d[CHOOSE i \in DOMAIN d : d[i][1] = k][2]

\* what one call did, by the claim: coef_by_k, p_by_k the mappings of the
\* call, r its outcome
CombinesPreOffsets(coef_by_k, p_by_k, k_pre_max, r) ==
    LET pre == {k \in Range(DictKeys(coef_by_k)) : k <= k_pre_max}
    IN /\ pre = {} => r.raised
       /\ ~ r.raised =>
             /\ Range(r.k_values) = pre
             /\ \A i, j \in DOMAIN r.k_values : i < j => r.k_values[i] < r.k_values[j]
             /\ r.df_num = 2 * Cardinality(pre)
             /\ r.f_stat = (0 - 2) * FSum([i \in DOMAIN r.k_values |->
                                 LogClamped(DictGet(p_by_k, r.k_values[i]))])

\* C25: event_study_preperiod_joint_test combines exactly the offsets of
\* coef_by_k that are <= k_pre_max: k_values lists them in ascending order,
\* df_num is twice their count, the call raises when there is none, and a
\* call after an offset above k_pre_max was removed, added or given another
\* p-value has the same outcome, statistic and p-value.
C25_CombinesExactlyPreOffsets ==
    (call.fn = "event_study_preperiod_joint_test"
        /\ call.pc \in {"first", "second"}) =>
        /\ call.pc = "first" =>
              CombinesPreOffsets(call.coef_by_k, call.p_by_k, call.k_pre_max,
                                 The(call.first))
        /\ call.pc = "second" =>
              LET a == The(call.first)
                  b == The(call.second)
              IN /\ CombinesPreOffsets(call.coef_by_k, call.p_by_k,
                                       call.k_pre_max, b)
                 /\ a.raised = b.raised
                 /\ ~ a.raised => /\ a.f_stat = b.f_stat
                                  /\ a.p_value = b.p_value
                                  /\ a.k_values = b.k_values
                                  /\ a.df_num = b.df_num

\* a second call that returned the statistic of two offsets <= k_pre_max
\* after the p-value of an offset above k_pre_max, which both mappings
\* hold, was changed
C25_Witness ==
    /\ call.fn = "event_study_preperiod_joint_test" /\ call.pc = "second"
    /\ ~ The(call.second).raised
    /\ Len(The(call.second).k_values) = 2
    /\ The(call.second).df_num = 4
    /\ The(call.second).f_stat > 0
    /\ \E k \in Range(DictKeys(call.coef_by_k)) :
          /\ k > call.k_pre_max
          /\ k \in Range(DictKeys(The(call.before).p_by_k))
          /\ k \in Range(DictKeys(call.p_by_k))
          /\ DictGet(call.p_by_k, k) # DictGet(The(call.before).p_by_k, k)

(***************************************************************************)
(* The best fit of donor_pool_search  (models/synth_opt.py:64-99)          *)
(***************************************************************************)

\* the trial records of the log
TrialRecords(d) ==
    {d.tried[i] : i \in {k \in DOMAIN d.tried : IsTrialRecord(d.tried[k])}}

\* C26: a donor_pool_search that ran its greedy search, logged at least
\* one trial and returned has as best fit one whose pre_rmse is the lowest
\* pre_rmse of the records of the trial log.
C26_BestIsMinimumOfLog ==
    (ds.pc = "done" /\ TrialRecords(ds) # {}) =>
        /\ \A r \in TrialRecords(ds) : The(ds.best_res).pre_rmse <= r.pre_rmse
        /\ \E r \in TrialRecords(ds) : The(ds.best_res).pre_rmse = r.pre_rmse

\* a search that returned the fit of its first step after two more steps
\* whose trials all had a higher pre_rmse
C26_Witness ==
    /\ ds.pc = "done"
    /\ Len(ds.selected) = 3
    /\ Len(The(ds.best_res).donor_units) = 1
    /\ \A r \in TrialRecords(ds) :
          r.step > 1 => r.pre_rmse > The(ds.best_res).pre_rmse

(***************************************************************************)
(* ResearchAgent  (agent/research_agent.py) with its ResearchMemory        *)
(* (registry/research_memory.py), its ExperimentRegistry                   *)
(* (registry/experiment_registry.py) and its KnowledgeGraph                *)
(* (knowledge/knowledge_graph.py)                                          *)
(*                                                                         *)
(* memory is the content of research_memory.json, runs the lines of        *)
(* runs.jsonl, kg the graph held by the agent and kg_disk the content of   *)
(* knowledge_graph.json (None while the file does not exist).  A uuid4 is  *)
(* a number never given before.  The panel of a test enters through what   *)
(* the estimators make of it: whether run_phase8_rigor or                  *)
(* compare_did_models raises, and the sign of the DiD ATT and its p-value  *)
(* (in hundredths).  Reads and writes of the three files succeed.          *)
(***************************************************************************)

\* bound on the calls of propose_hypothesis and test_hypothesis
AgentMaxCalls == 3

\* list_runs(self, limit: int = 200)
ListRunsLimit == 200

AgDirections == {"increase", "decrease", "ambiguous"}

AgNotes == {"", "n"}

\* what the estimators make of a panel
AgPanels ==
    {[fails |-> f, att |-> 0, p |-> 0] : f \in {"phase8", "compare"}}
        \cup [fails : {"none"}, att : {-1, 0, 1}, p : {5, 9}]

\* alpha = 0.05, the default, in hundredths
Alpha == 5

\* notes as the list of their non-empty lines
NoteLines(notes) == IF notes = "" THEN <<>> ELSE <<notes>>

\* ResearchMemory.add_hypothesis (lines 40-66)
AddHypothesis(memory, hypothesis_id, expected_direction, notes) ==
    Append(memory, [hypothesis_id |-> hypothesis_id,
                    expected_direction |-> expected_direction,
                    status |-> "proposed",
                    notes |-> NoteLines(notes)])

\* update_hypothesis_status that changes every stored hypothesis
UpdateEveryHypothesisStatus(memory, hypothesis_id, status, notes) ==
    [i \in DOMAIN memory |->
        [memory[i] EXCEPT !.status = status,
                          !.notes = IF notes # <<>> THEN @ \o notes ELSE @]]

\* ResearchMemory.update_hypothesis_status (lines 72-79): the status is
\* set and the notes go after the stored ones on a new line
\* ((old + "\n" + notes).strip())
UpdateHypothesisStatus(memory, hypothesis_id, status, notes) ==
    [i \in DOMAIN memory |->
        IF memory[i].hypothesis_id = hypothesis_id
        THEN [memory[i] EXCEPT !.status = status,
                               !.notes = IF notes # <<>> THEN @ \o notes ELSE @]
        ELSE memory[i]]

\* ExperimentRegistry.log_run (lines 38-64): one line appended
LogRun(runs, rec) == Append(runs, rec)

\* ExperimentRegistry.list_runs (lines 66-79): the records of the first
\* `limit` lines
ListRuns(runs, limit) == SubSeq(runs, 1, Min(limit, Len(runs)))

\* KnowledgeGraph.add_node (lines 26-27): the attributes given are set,
\* the other attributes of a node already there are kept
KgAddNode(kg, node_id, attrs) ==
    [kg EXCEPT !.nodes =
        [n \in DOMAIN kg.nodes \cup {node_id} |->
            IF n = node_id
            THEN IF n \in DOMAIN kg.nodes
                 THEN [a \in DOMAIN kg.nodes[n] \cup DOMAIN attrs |->
                          IF a \in DOMAIN attrs THEN attrs[a] ELSE kg.nodes[n][a]]
                 ELSE attrs
            ELSE kg.nodes[n]]]

\* KnowledgeGraph.add_edge (lines 29-30): the end points become nodes, the
\* edge (src, dst, rel) is added or its attributes are set
KgAddEdge(kg, src, rel, dst, meta) ==
    LET none == [a \in {} |-> ""]
        ends == [n \in DOMAIN kg.nodes \cup {src, dst} |->
                    IF n \in DOMAIN kg.nodes THEN kg.nodes[n] ELSE none]
        e == <<src, dst, rel>>
    IN [nodes |-> ends,
        edges |-> [x \in DOMAIN kg.edges \cup {e} |->
                      IF x = e THEN meta ELSE kg.edges[x]]]

EmptyKg == [nodes |-> [n \in {} |-> ""], edges |-> [e \in {} |-> ""]]

\* the status that takes no account of the direction
EvidenceStatusNoDirection(expected_direction, att, p, alpha) ==
    IF p <= alpha THEN "supported" ELSE "inconclusive"

\* research_agent.py lines 125-136: the evidence rule
EvidenceStatus(expected_direction, att, p, alpha) ==
    LET direction == IF att > 0 THEN "increase"
                     ELSE IF att < 0 THEN "decrease" ELSE "none"
    IN IF p <= alpha
       THEN IF expected_direction \in {"increase", "decrease"}
                  /\ direction = expected_direction
            THEN "supported"
            ELSE IF expected_direction \in {"increase", "decrease"}
                       /\ direction # expected_direction
            THEN "refuted"
            ELSE "tested"
       ELSE "inconclusive"

\* str(uuid.uuid4()): the n-th identifier drawn
UuidPool == <<"u1", "u2", "u3", "u4", "u5", "u6", "u7", "u8">>

\* a node id: a plain string s is <<"", s>>, f"result:{s}" is <<"result:", s>>
NodeId(s) == <<"", s>>

ResultNodeId(s) == <<"result:", s>>

\* research_agent.py lines 65-68: the hypothesis node and its three edges
KgAfterPropose(kg, id) ==
    LET kg1 == KgAddNode(kg, NodeId(id),
                         [type |-> "hypothesis", statement |-> "statement",
                          status |-> "proposed"])
        kg2 == KgAddEdge(kg1, NodeId(id), "ABOUT", NodeId("country"),
                         [type |-> "country"])
        kg3 == KgAddEdge(kg2, NodeId(id), "OUTCOME", NodeId("outcome"),
                         [type |-> "variable"])
    IN KgAddEdge(kg3, NodeId(id), "TREATMENT", NodeId("treatment"),
                 [type |-> "variable"])

\* research_agent.py lines 139-141: the result node and the two edges
KgAfterTest(kg, id, att, p, status) ==
    LET kg1 == KgAddNode(kg, ResultNodeId(id),
                         [type |-> "result", did_att |-> att, did_p |-> p,
                          status |-> status])
        kg2 == KgAddEdge(kg1, NodeId(id), "TESTED_BY", NodeId("phase8_rigor"),
                         [phase |-> "8"])
    IN KgAddEdge(kg2, NodeId(id), "YIELDS", ResultNodeId(id), [method |-> "DiD"])

\* research_agent.py lines 145-153: the run record of a test
RunRecord(run_id, id, att, p, status) ==
    [run_id |-> run_id, method |-> "agent_hypothesis_test", hypothesis_id |-> id,
     status |-> status, did_att |-> att, did_p |-> p]

\* f"Evidence: DiD ATT={att:.4f}, p={p:.4g}, direction={direction}."
EvidenceNote(att, p) == <<"Evidence", att, p>>

\* the statements of test_hypothesis in their order: lines 85-88, 91-99,
\* 102-120, 123-153; with the record made before the fits
TestHypothesisStepsRecordFirst == <<"lookup", "record", "phase8", "compare">>

TestHypothesisSteps == <<"lookup", "phase8", "compare", "record">>

\* ResearchAgent.__init__ (lines 33-43) on a new working directory
AgentStart ==
    [pc |-> "ready", memory |-> <<>>, kg |-> EmptyKg, kg_disk |-> None,
     runs |-> <<>>, next_id |-> 1, calls |-> 0,
     i |-> 0, cur |-> None, before |-> None, listed |-> None,
     \* history: the tests that returned
     completed |-> <<>>]

\* ResearchAgent.__init__ on the working directory an earlier agent left
\* after it proposed one hypothesis ("u0", an increase expected) and
\* tested it n >= 1 times on a panel of ATT > 0 and p = 0.09: the memory
\* and the runs are read from their files at every use, the graph is
\* loaded from knowledge_graph.json.  The run ids of the earlier runs are
\* not told apart.
AgentResumed(n) ==
    LET id == "u0"
        kg == KgAfterTest(KgAfterPropose(EmptyKg, id), id, 1, 9, "inconclusive")
    IN [pc |-> "ready",
        memory |-> <<[hypothesis_id |-> id, expected_direction |-> "increase",
                      status |-> "inconclusive",
                      notes |-> [i \in 1..n |-> EvidenceNote(1, 9)]]>>,
        kg |-> kg, kg_disk |-> Some(kg),
        runs |-> [i \in 1..n |-> RunRecord("prior", id, 1, 9, "inconclusive")],
        next_id |-> 1, calls |-> 0,
        i |-> 0, cur |-> None, before |-> None, listed |-> None,
        completed |-> [i \in 1..n |-> [hypothesis_id |-> id, att |-> 1, p |-> 9,
                                       alpha |-> Alpha, run_id |-> "prior"]]]

AgentAtRest == agent.pc \in {"ready", "returned", "raised"}

\* propose_hypothesis (lines 45-70)
AgPropose ==
    /\ AgentAtRest
    /\ agent.calls < AgentMaxCalls
    /\ agent.next_id <= Len(UuidPool)
    /\ \E expected_direction \in AgDirections, notes \in AgNotes :
          LET id == UuidPool[agent.next_id]
              kg4 == KgAfterPropose(agent.kg, id)
          IN agent' = [agent EXCEPT
                 !.pc = "ready",
                 !.memory = AddHypothesis(@, id, expected_direction, notes),
                 !.kg = kg4, !.kg_disk = Some(kg4),
                 !.next_id = @ + 1, !.calls = @ + 1,
                 !.cur = None, !.before = None, !.listed = None]
    /\ UNCHANGED <<sc, sw, ds, cmp, call>>

\* test_hypothesis is called (lines 72-83)
AgTestCall ==
    /\ AgentAtRest
    /\ agent.calls < AgentMaxCalls
    /\ \E hypothesis_id \in {agent.memory[k].hypothesis_id : k \in DOMAIN agent.memory}
                               \cup {"unknown"},
          panel \in AgPanels, alpha \in {Alpha} :
          agent' = [agent EXCEPT
              !.pc = "testing", !.i = 1, !.calls = @ + 1,
              !.cur = Some([hypothesis_id |-> hypothesis_id, panel |-> panel,
                            alpha |-> alpha, h |-> None, run_id |-> ""]),
              !.before = Some([memory |-> agent.memory, kg |-> agent.kg,
                               kg_disk |-> agent.kg_disk, runs |-> agent.runs]),
              !.listed = None]
    /\ UNCHANGED <<sc, sw, ds, cmp, call>>

AgAt(step) ==
    /\ agent.pc = "testing"
    /\ agent.i \in DOMAIN TestHypothesisSteps
    /\ TestHypothesisSteps[agent.i] = step

\* lines 85-88
AgTestLookup ==
    /\ AgAt("lookup")
    /\ LET cur == The(agent.cur)
           found == {k \in DOMAIN agent.memory :
                        agent.memory[k].hypothesis_id = cur.hypothesis_id}
       IN IF found = {}
          THEN agent' = [agent EXCEPT !.pc = "raised"]
          ELSE LET k == CHOOSE x \in found : \A y \in found : y <= x
               IN agent' = [agent EXCEPT !.i = @ + 1,
                               !.cur = Some([cur EXCEPT !.h = Some(agent.memory[k])])]
    /\ UNCHANGED <<sc, sw, ds, cmp, call>>

\* lines 91-99: run_phase8_rigor
AgTestPhase8 ==
    /\ AgAt("phase8")
    /\ IF The(agent.cur).panel.fails = "phase8"
       THEN agent' = [agent EXCEPT !.pc = "raised"]
       ELSE agent' = [agent EXCEPT !.i = @ + 1]
    /\ UNCHANGED <<sc, sw, ds, cmp, call>>

\* lines 102-120: compare_did_models
AgTestCompare ==
    /\ AgAt("compare")
    /\ IF The(agent.cur).panel.fails = "compare"
       THEN agent' = [agent EXCEPT !.pc = "raised"]
       ELSE agent' = [agent EXCEPT !.i = @ + 1]
    /\ UNCHANGED <<sc, sw, ds, cmp, call>>

\* lines 123-153: the evidence rule, the status and the note of the
\* hypothesis, the result node and its edges, the saved graph, the run
\* record
AgTestRecord ==
    /\ AgAt("record")
    /\ agent.next_id <= Len(UuidPool)
    /\ LET cur == The(agent.cur)
           h == The(cur.h)
           id == cur.hypothesis_id
           att == cur.panel.att
           p == cur.panel.p
           status == EvidenceStatus(h.expected_direction, att, p, cur.alpha)
           note == EvidenceNote(att, p)
           kg3 == KgAfterTest(agent.kg, id, att, p, status)
           rec == RunRecord(UuidPool[agent.next_id], id, att, p, status)
       IN agent' = [agent EXCEPT
              !.i = @ + 1,
              !.memory = UpdateHypothesisStatus(@, id, status, <<note>>),
              !.kg = kg3, !.kg_disk = Some(kg3),
              !.runs = LogRun(@, rec),
              !.next_id = @ + 1,
              !.cur = Some([cur EXCEPT !.run_id = rec.run_id])]
    /\ UNCHANGED <<sc, sw, ds, cmp, call>>

\* lines 155-162
AgTestReturn ==
    /\ agent.pc = "testing"
    /\ agent.i > Len(TestHypothesisSteps)
    /\ LET cur == The(agent.cur)
       IN agent' = [agent EXCEPT
              !.pc = "returned",
              !.completed = Append(@, [hypothesis_id |-> cur.hypothesis_id,
                                       att |-> cur.panel.att, p |-> cur.panel.p,
                                       alpha |-> cur.alpha, run_id |-> cur.run_id])]
    /\ UNCHANGED <<sc, sw, ds, cmp, call>>

\* registry.list_runs() (lines 66-79) after a test, with the default limit
AgListRuns ==
    /\ agent.pc = "returned"
    /\ agent.listed = None
    /\ agent' = [agent EXCEPT !.listed = Some(ListRuns(agent.runs, ListRunsLimit))]
    /\ UNCHANGED <<sc, sw, ds, cmp, call>>

\* an agent on a new working directory
InitAgent ==
    /\ agent = AgentStart
    /\ sc = Idle /\ sw = Idle /\ ds = Idle /\ cmp = Idle /\ call = Idle

\* an agent on a working directory whose registry holds the run records
\* of an earlier agent: one less than list_runs reads, or as many
InitAgentOnRegistry ==
    /\ agent \in {AgentResumed(n) : n \in {ListRunsLimit - 1, ListRunsLimit}}
    /\ sc = Idle /\ sw = Idle /\ ds = Idle /\ cmp = Idle /\ call = Idle

NextAgent ==
    \/ AgPropose
    \/ AgTestCall
    \/ AgTestLookup
    \/ AgTestPhase8
    \/ AgTestCompare
    \/ AgTestRecord
    \/ AgTestReturn
    \/ AgListRuns

SpecAgent == InitAgent /\ [][NextAgent]_vars

SpecAgentOnRegistry == InitAgentOnRegistry /\ [][NextAgent]_vars

\* the completed tests of hypothesis id, oldest first
CompletedTestsOf(id) ==
    SelectSeq(agent.completed, LAMBDA e : e.hypothesis_id = id)

\* the sign of the ATT is the expected direction, which is increase or
\* decrease
SignMatches(expected_direction, att) ==
    \/ expected_direction = "increase" /\ att > 0
    \/ expected_direction = "decrease" /\ att < 0

\* C27: between the calls of a ResearchAgent every stored status is one of
\* proposed, tested, supported, refuted, inconclusive; it is proposed
\* exactly while no test of the hypothesis has completed; and after the
\* latest completed test it is supported only if p <= alpha and the sign
\* of the ATT matched an expected direction of increase or decrease,
\* refuted only if p <= alpha, the expected direction was increase or
\* decrease and the sign did not match it, and inconclusive whenever
\* p > alpha.
C27_StatusFollowsEvidence ==
    AgentAtRest =>
        \A k \in DOMAIN agent.memory :
            LET h == agent.memory[k]
                done == CompletedTestsOf(h.hypothesis_id)
            IN /\ h.status \in {"proposed", "tested", "supported", "refuted",
                                "inconclusive"}
               /\ h.status = "proposed" <=> done = <<>>
               /\ done # <<>> =>
                     LET e == done[Len(done)]
                     IN /\ h.status = "supported" =>
                              e.p <= e.alpha /\ SignMatches(h.expected_direction, e.att)
                        /\ h.status = "refuted" =>
                              /\ e.p <= e.alpha
                              /\ h.expected_direction \in {"increase", "decrease"}
                              /\ ~ SignMatches(h.expected_direction, e.att)
                        /\ e.p > e.alpha => h.status = "inconclusive"

\* a hypothesis tested twice: supported by the first test (p = alpha, the
\* expected sign), refuted after the second (ATT of 0)
C27_Witness ==
    /\ agent.pc = "returned"
    /\ Len(agent.memory) = 1
    /\ agent.memory[1].status = "refuted"
    /\ Len(agent.completed) = 2
    /\ agent.completed[1].p = agent.completed[1].alpha
    /\ SignMatches(agent.memory[1].expected_direction, agent.completed[1].att)
    /\ agent.completed[2].att = 0

\* C28: when test_hypothesis has raised (unknown hypothesis id, or
\* run_phase8_rigor or compare_did_models raised), the stored hypotheses,
\* the knowledge graph held by the agent, the saved knowledge graph and
\* the run records are what they were when the call began.
C28_FailedTestChangesNothing ==
    agent.pc = "raised" =>
        LET before == The(agent.before)
        IN /\ agent.memory = before.memory
           /\ agent.kg = before.kg
           /\ agent.kg_disk = before.kg_disk
           /\ agent.runs = before.runs

\* a test that raised in compare_did_models, of a hypothesis that an
\* earlier test had given a status, a result node and a run record
C28_Witness ==
    /\ agent.pc = "raised"
    /\ The(agent.cur).panel.fails = "compare"
    /\ The(agent.cur).h # None
    /\ The(The(agent.cur).h).status = "supported"
    /\ Len(agent.runs) = 1
    /\ ResultNodeId(The(agent.cur).hypothesis_id) \in DOMAIN agent.kg.nodes
    /\ agent.kg_disk = Some(agent.kg)

IsNotEnough(rec) ==
    /\ "error" \in DOMAIN rec
    /\ rec.error = "Not enough observations in bandwidth to fit RDD."

\* C30: in one bandwidth sweep, of two records the one of the larger (or
\* equal) bandwidth never has the smaller n, and when the record of a
\* bandwidth is the not-enough-observations error, so is the record of
\* every requested bandwidth that is not larger.
C30_NotEnoughIsDownwardClosed ==
    sw.pc \in {"loop", "done"} /\ sw.kind = "rdd" =>
        \A j, k \in DOMAIN sw.out :
            sw.out[j].bandwidth.val <= sw.out[k].bandwidth.val =>
                /\ ("n" \in DOMAIN sw.out[j] /\ "n" \in DOMAIN sw.out[k]) =>
                      sw.out[j].n <= sw.out[k].n
                /\ IsNotEnough(sw.out[k]) => IsNotEnough(sw.out[j])

\* a sweep that ended with the not-enough error at a bandwidth that holds
\* rows, and at a smaller bandwidth requested after it
C30_Witness ==
    /\ sw.pc = "done" /\ sw.kind = "rdd"
    /\ \E j, k \in DOMAIN sw.out :
          /\ k < j
          /\ sw.out[j].bandwidth.val < sw.out[k].bandwidth.val
          /\ IsNotEnough(sw.out[k]) /\ IsNotEnough(sw.out[j])
          /\ RddN(sw.rows, sw.cutoff, sw.bandwidths[k]) > 0

(***************************************************************************)
(* The whole core: any one of the calls above                              *)
(***************************************************************************)

Init ==
    \/ InitSC \/ InitSweep \/ InitDonor \/ InitCompare
    \/ InitBic \/ InitRdd \/ InitEs \/ InitCs \/ InitFrames \/ InitDid \/ InitJt
    \/ InitIts \/ InitJtCut \/ InitAgent \/ InitAgentOnRegistry

Next ==
    \/ NextSC \/ NextSweep \/ NextDonor \/ NextCompare
    \/ NextBic \/ NextRdd \/ NextEs \/ NextCs \/ NextFrames \/ NextDid \/ NextJt
    \/ NextIts \/ NextJtCut \/ NextAgent

Spec == Init /\ [][Next]_vars

====
